---- MODULE Spec2Model ----
(***************************************************************************)
(* Forward computation of DLRM_Net (dlrm_s_pytorch.py): merged embedding   *)
(* lookup (infer_gpu / apply_emb), feature interaction, and the three      *)
(* execution strategies (sequential, device-parallel, distributed).        *)
(*                                                                         *)
(* Numbers are integers.  Weights and features are small integers drawn    *)
(* from a linear congruential model of numpy's global random state; a      *)
(* score is the sigmoid in thousandths (0..1000).  Tensors are sequences   *)
(* (1-D) or sequences of rows (2-D); position i of the code is position    *)
(* i+1 here.                                                               *)
(***************************************************************************)
EXTENDS Integers, Sequences, FiniteSets, TLC

VARIABLES
    my_size,     \* ext_dist.my_size: number of ranks (1 = not distributed)
    ln_emb,      \* the main script's ln_emb: the row count of every table
    np_random,   \* per process: numpy's global random state
    net,         \* per process: the DLRM_Net object (self.*)
    batch0,      \* the batch as the data loader produced it
    lS_o,        \* per process: the caller's offsets tensor (2-D), mutable
    lS_i,        \* per process: the caller's list of index tensors, mutable
    pc,          \* per process: position inside the forward call
    error,       \* per process: the error that ended the call ("none" if none)
    x,           \* per process: bottom-encoder output
    ly,          \* per process: lookup results held (local, then after all-to-all)
    a2a,         \* per process: what the rank handed to ext_dist.alltoall
    ag,          \* per process: what the rank handed to ext_dist.all_gather
    z,           \* per process: the value forward returned
    log,         \* per process: the steps of the call performed so far
    args,        \* the parsed command line of the main script (<<>> when the
                 \* model is built without the script)
    loop         \* the main script's epoch loop: k, j and what it reads (<<>>
                 \* outside the loop)

vars == <<my_size, ln_emb, np_random, net, batch0, lS_o, lS_i, pc, error, x, ly, a2a, ag, z, log, args, loop>>

(***************************************************************************)
(* Bounds of the model.                                                    *)
(***************************************************************************)
MaxTables == 3
MaxRows == 2
MaxRanks == 2
MaxBatch == 4
MaxDevices == 3
MaxWidth == 4

\* a Python reference that may be None
PyNone == [none |-> TRUE, v |-> <<>>]

PyObj(v) == [none |-> FALSE, v |-> v]

\* an assignment: value bound to a name for the statements that follow it
With(value, Body(_)) == Body(value)

(***************************************************************************)
(* Tensor helpers.                                                         *)
(***************************************************************************)
Min(a, b) == IF a < b THEN a ELSE b

Zeros(n) == [k \in 1..n |-> 0]

VecAdd(u, v) == [k \in 1..Len(u) |-> u[k] + v[k]]

RECURSIVE SumSeq(_)
SumSeq(s) == IF s = <<>> THEN 0 ELSE s[1] + SumSeq(Tail(s))

Dot(u, v) == SumSeq([k \in 1..Len(u) |-> u[k] * v[k]])

RECURSIVE Flatten(_)
Flatten(ss) == IF ss = <<>> THEN <<>> ELSE ss[1] \o Flatten(Tail(ss))

\* t[a:b] of Python on a sequence (0 <= a, clipped at the length)
Slice(s, a, b) ==
    LET hi == Min(b, Len(s))
    IN  IF hi <= a THEN <<>> ELSE [k \in 1..(hi - a) |-> s[a + k]]

(***************************************************************************)
(* numpy's global random state: a linear congruential generator.           *)
(***************************************************************************)
NpStep(s) == (5 * s + 3) % 16

RECURSIVE NpIter(_, _)
\* k steps from s; NpStep has period 16, so 16 steps lead back to s
NpIter(s, k) == IF k = 0 THEN s ELSE IF k >= 16 THEN NpIter(s, k - 16) ELSE NpIter(NpStep(s), k - 1)

\* np.random.uniform(low=-sqrt(1/n), high=sqrt(1/n), size=(n, m)) from state s
np_random_uniform(s, n, m) ==
    [r \in 1..n |-> [c \in 1..m |-> (NpIter(s, (r - 1) * m + c) % 5) - 2]]

\* np.random.normal(mean, std_dev, size=(m, n)) from state s
np_random_normal(s, m, n) ==
    [r \in 1..m |-> [c \in 1..n |-> (NpIter(s, (r - 1) * n + c) % 3) - 1]]

\* np.random.randint(low=0, high=100000, size=n) from state s
np_random_randint(s, n) == [k \in 1..n |-> NpIter(s, k)]

(***************************************************************************)
(* extend_distributed: the split of n items over the ranks.                *)
(***************************************************************************)
\* ext_dist.get_my_slice(n) on rank r of R: the half-open range [start, stop)
get_my_slice(n, r, R) ==
    LET k == n \div R
        m == n % R
    IN  [start |-> r * k + Min(r, m), stop |-> (r + 1) * k + Min(r + 1, m)]

\* ext_dist.get_split_lengths(n) on rank r of R: (my_len, splits)
get_split_lengths(n, r, R) ==
    LET k == n \div R
        m == n % R
    IN  IF m = 0
        THEN [my_len |-> k, splits |-> PyNone]
        ELSE [my_len |-> IF r < m THEN k + 1 ELSE k,
              splits |-> PyObj([i \in 1..R |-> IF i - 1 < m THEN k + 1 ELSE k])]

(***************************************************************************)
(* DLRM_Net.create_mlp, create_emb, __init__.                              *)
(***************************************************************************)
\* one nn.Linear followed by its activation; the state after the draws
RECURSIVE create_mlp_from(_, _, _, _)
create_mlp_from(ln, sigmoid_layer, i, s) ==
    IF i >= Len(ln) - 1
    THEN [layers |-> <<>>, state |-> s]
    ELSE LET n == ln[i + 1]
             m == ln[i + 2]
             act == IF i = sigmoid_layer THEN "sigmoid" ELSE "relu"
         IN  With(NpIter(s, m * n), LAMBDA s1 :
             With([weight |-> np_random_normal(s, m, n),
                   bias |-> np_random_normal(s1, 1, m)[1],
                   act |-> act], LAMBDA LL :
             With(create_mlp_from(ln, sigmoid_layer, i + 1, NpIter(s1, m)), LAMBDA rest :
                 [layers |-> <<LL>> \o rest.layers, state |-> rest.state])))

create_mlp(ln, sigmoid_layer, s) == create_mlp_from(ln, sigmoid_layer, 0, s)

\* the tables create_emb appends, from table i on; each carries the loop
\* index it was created for (name) and its weight matrix
RECURSIVE create_emb_from(_, _, _, _, _, _)
create_emb_from(m, ln, seeds, distributed, local_emb_indices, i) ==
    IF i >= Len(ln)
    THEN <<>>
    ELSE IF distributed /\ i \notin local_emb_indices
    THEN create_emb_from(m, ln, seeds, distributed, local_emb_indices, i + 1)
    ELSE <<[name |-> i, weight |-> np_random_uniform(seeds[i + 1], ln[i + 1], m)]>>
         \o create_emb_from(m, ln, seeds, distributed, local_emb_indices, i + 1)

\* create_emb without the "if ext_dist.my_size > 1: if i not in
\* self.local_emb_indices: continue" of its loop: every rank builds every table
create_emb_all_tables(m, ln, seeds, distributed, local_emb_indices, s) ==
    [emb_l |-> create_emb_from(m, ln, seeds, FALSE, local_emb_indices, 0),
     state |-> s]

\* create_emb without "np.random.set_state(np_rand_state)": numpy's state
\* after the call is the state the last table's seed and draws left
create_emb_without_restore(m, ln, seeds, distributed, local_emb_indices, s) ==
    With(create_emb_from(m, ln, seeds, distributed, local_emb_indices, 0), LAMBDA tables :
        [emb_l |-> tables,
         state |-> IF tables = <<>> THEN s
                   ELSE NpIter(seeds[tables[Len(tables)].name + 1] % 16,
                               Len(tables[Len(tables)].weight) * m)])

\* returns emb_l and numpy's state after the call (the saved state, restored)
create_emb(m, ln, seeds, distributed, local_emb_indices, s) ==
    [emb_l |-> create_emb_from(m, ln, seeds, distributed, local_emb_indices, 0),
     state |-> s]

\* DLRM_Net.__init__ on rank r of R, then lines 1456-1458 of the main script
\* (which create emb_l when ndevices > 1); numpy's state after construction
DLRM_Net_init(m, ln, ln_bot, ln_top, arch_interaction_op, arch_interaction_itself, sigmoid_bot, sigmoid_top, sync_dense_params, loss_threshold, ndevices, r, R, s) ==
    LET n_emb == Len(ln)
        l_emb_seeds == np_random_randint(s, n_emb)
        sl == get_my_slice(n_emb, r, R)
        local_emb_indices == {i \in 0..(n_emb - 1) : sl.start <= i /\ i < sl.stop}
    IN  With(create_emb(m, ln, l_emb_seeds, R > 1, local_emb_indices, NpIter(s, n_emb)),
             LAMBDA emb :
        With(create_mlp(ln_bot, sigmoid_bot, emb.state), LAMBDA bot :
        With(create_mlp(ln_top, sigmoid_top, bot.state), LAMBDA top :
            [self |->
                [proj_size |-> 0,
                 ndevices |-> ndevices,
                 output_d |-> 0,
                 parallel_model_batch_size |-> -1,
                 parallel_model_is_not_prepared |-> TRUE,
                 arch_interaction_op |-> arch_interaction_op,
                 arch_interaction_itself |-> arch_interaction_itself,
                 sync_dense_params |-> sync_dense_params,
                 loss_threshold |-> loss_threshold,
                 l_emb_seeds |-> l_emb_seeds,
                 n_global_emb |-> n_emb,
                 n_local_emb |-> get_split_lengths(n_emb, r, R).my_len,
                 n_emb_per_rank |-> get_split_lengths(n_emb, r, R).splits,
                 local_emb_slice |-> sl,
                 local_emb_indices |-> local_emb_indices,
                 emb_l |-> PyObj(emb.emb_l),
                 bot_l |-> bot.layers,
                 top_l |-> top.layers,
                 bot_l_replicas |-> <<>>,
                 top_l_replicas |-> <<>>,
                 quantize_emb |-> FALSE,
                 emb_l_q |-> <<>>,
                 quantize_bits |-> 32],
             state |-> top.state])))

(***************************************************************************)
(* DLRM_Net.apply_mlp: the layers applied to every row of x.               *)
(***************************************************************************)
\* torch.nn.Sigmoid in thousandths
Sigmoid(v) ==
    CASE v <= -3 -> 47
      [] v = -2 -> 119
      [] v = -1 -> 269
      [] v = 0 -> 500
      [] v = 1 -> 731
      [] v = 2 -> 881
      [] OTHER -> 953

ReLU(v) == IF v > 0 THEN v ELSE 0

Linear(LL, row) ==
    [k \in 1..Len(LL.weight) |->
        LET v == Dot(LL.weight[k], row) + LL.bias[k]
        IN  IF LL.act = "sigmoid" THEN Sigmoid(v) ELSE ReLU(v)]

RECURSIVE apply_layers(_, _)
apply_layers(row, layers) ==
    IF layers = <<>> THEN row
    ELSE apply_layers(Linear(layers[1], row), Tail(layers))

\* a row whose width is not the first layer's input width is a shape error
apply_mlp(xx, layers) ==
    IF \E k \in 1..Len(xx) : Len(xx[k]) # Len(layers[1].weight[1])
    THEN [err |-> "RuntimeError", out |-> <<>>]
    ELSE [err |-> "none", out |-> [k \in 1..Len(xx) |-> apply_layers(xx[k], layers)]]

(***************************************************************************)
(* torch.ops.quantized.embedding_bag_{byte,4bit}_prepack: row-wise affine  *)
(* quantization.  A row v with minimum mn and maximum mx is stored as the  *)
(* codes q[c] = round((v[c] - mn) / scale), scale = (mx - mn) / levels     *)
(* (scale = 1 when mx = mn), followed by the scale and the bias mn.  The   *)
(* scale word holds scale * levels, an integer.                            *)
(***************************************************************************)
\* num / den cut towards zero instead of rounded
TruncDiv(num, den) == num \div den

\* round(num / den) for num >= 0, den > 0, halves to even (nearbyint)
RoundDiv(num, den) ==
    LET q == num \div den
        r == num % den
    IN  IF 2 * r < den THEN q
        ELSE IF 2 * r > den THEN q + 1
        ELSE IF q % 2 = 0 THEN q ELSE q + 1

RowMin(v) == CHOOSE m \in {v[c] : c \in 1..Len(v)} : \A c \in 1..Len(v) : m <= v[c]

RowMax(v) == CHOOSE m \in {v[c] : c \in 1..Len(v)} : \A c \in 1..Len(v) : m >= v[c]

\* k little-endian two's-complement bytes of a small integer
ToBytes(n, k) ==
    [i \in 1..k |-> IF i = 1 THEN n % 256
                    ELSE IF i = 2 THEN (n \div 256) % 256
                    ELSE IF n < 0 THEN 255 ELSE 0]

FromBytes(b) ==
    LET lo == b[1] + 256 * b[2]
    IN  IF b[Len(b)] >= 128 THEN lo - 65536 ELSE lo

\* scale * levels of a row (scale = 1 for a constant row)
ScaleWord(v, levels) == IF RowMax(v) = RowMin(v) THEN levels ELSE RowMax(v) - RowMin(v)

\* the codes of a row, levels = 2^bits - 1
QuantizeRow(v, levels) ==
    [c \in 1..Len(v) |->
        Min(levels, RoundDiv((v[c] - RowMin(v)) * levels, ScaleWord(v, levels)))]

\* one byte per code, then 4 bytes of scale and 4 bytes of bias
embedding_bag_byte_prepack(weight) ==
    [err |-> "none",
     packed |-> [r \in 1..Len(weight) |->
                    QuantizeRow(weight[r], 255)
                    \o ToBytes(ScaleWord(weight[r], 255), 4) \o ToBytes(RowMin(weight[r]), 4)]]

\* two codes per byte (low nibble first), then 2 bytes of scale and 2 of
\* bias; the column count must be even
embedding_bag_4bit_prepack(weight) ==
    IF \E r \in 1..Len(weight) : Len(weight[r]) % 2 # 0
    THEN [err |-> "RuntimeError", packed |-> <<>>]
    ELSE [err |-> "none",
          packed |-> [r \in 1..Len(weight) |->
                         [k \in 1..(Len(weight[r]) \div 2) |->
                             QuantizeRow(weight[r], 15)[2 * k - 1]
                             + 16 * QuantizeRow(weight[r], 15)[2 * k]]
                         \o ToBytes(ScaleWord(weight[r], 15), 2)
                         \o ToBytes(RowMin(weight[r]), 2)]]

\* the row a byte-packed row decodes to, times 255: q * scale + bias
DequantizeByteRow(row) ==
    LET d == Len(row) - 8
        sw == FromBytes(Slice(row, d, d + 4))
        bias == FromBytes(Slice(row, d + 4, d + 8))
    IN  [c \in 1..d |-> row[c] * sw + bias * 255]

\* the row a 4-bit-packed row decodes to, times 15
Dequantize4bitRow(row) ==
    LET h == Len(row) - 4
        sw == FromBytes(Slice(row, h, h + 2))
        bias == FromBytes(Slice(row, h + 2, h + 4))
        code(c) == IF c % 2 = 1 THEN row[(c + 1) \div 2] % 16 ELSE row[c \div 2] \div 16
    IN  [c \in 1..(2 * h) |-> code(c) * sw + bias * 15]

(***************************************************************************)
(* infer_gpu: the merged lookup.  offsets is the caller's object: a 2-D    *)
(* tensor [type |-> "tensor"] or a Python list [type |-> "list"]; indices  *)
(* is a list of 1-D tensors.  Both are modified in place; the returned     *)
(* record carries them as the caller sees them afterwards.                 *)
(***************************************************************************)
\* lines 154-158, from table i on; st holds offsets, indices, the prefix sums
\* and the exception raised, if any
RECURSIVE infer_gpu_loop(_, _, _, _)
infer_gpu_loop(st, i, num_tables, num_embedding_rows) ==
    IF i >= num_tables \/ st.err # "none"
    THEN st
    ELSE IF i >= Len(st.offsets)
    THEN [st EXCEPT !.err = "IndexError"]
    ELSE With([st.offsets EXCEPT ![i + 1] =
                  [k \in 1..Len(@) |-> @[k] + st.prefix_sum_indices[i + 1]]], LAMBDA off1 :
         IF i >= Len(st.indices)
         THEN [st EXCEPT !.offsets = off1, !.err = "IndexError"]
         ELSE LET pso == st.prefix_sum_offsets
                  psi == st.prefix_sum_indices
              IN  infer_gpu_loop(
                      [offsets |-> off1,
                       indices |-> [st.indices EXCEPT ![i + 1] =
                                       [k \in 1..Len(@) |-> @[k] + i * num_embedding_rows]],
                       prefix_sum_offsets |-> Append(pso, pso[Len(pso)] + Len(st.offsets[i + 1])),
                       prefix_sum_indices |-> Append(psi, psi[Len(psi)] + Len(st.indices[i + 1])),
                       err |-> "none"],
                      i + 1, num_tables, num_embedding_rows))

\* lines 251-253: table i is copied into rows [i*R, (i+1)*R) of the merged
\* table; a table of another row count is broadcast when it has one row and
\* is a shape error otherwise
RECURSIVE concatenated_embedding_tables(_, _, _)
concatenated_embedding_tables(tensors, num_embedding_rows, i) ==
    IF i >= Len(tensors)
    THEN [err |-> "none", weight |-> <<>>]
    ELSE With(concatenated_embedding_tables(tensors, num_embedding_rows, i + 1), LAMBDA rest :
         LET W == tensors[i + 1]
         IN  IF Len(W) = num_embedding_rows
             THEN [err |-> rest.err, weight |-> W \o rest.weight]
             ELSE IF Len(W) = 1
             THEN [err |-> rest.err,
                   weight |-> [k \in 1..num_embedding_rows |-> W[1]] \o rest.weight]
             ELSE [err |-> "RuntimeError", weight |-> <<>>])

\* the sum of weight's rows at indices[a .. b-1]
RECURSIVE BagSum(_, _, _, _, _)
BagSum(weight, indices, a, b, embed_dim) ==
    IF a >= b THEN Zeros(embed_dim)
    ELSE VecAdd(weight[indices[a + 1] + 1],
                BagSum(weight, indices, a + 1, b, embed_dim))

\* torch.nn.EmbeddingBag(mode='sum') on the device: bag k spans
\* indices[offsets[k] : offsets[k+1]], the last bag ends at the last index;
\* an index met that is no row of weight is an error
EmbeddingBag(weight, embed_dim, indices, offsets) ==
    LET nb == Len(offsets)
        begin(k) == offsets[k]
        end(k) == IF k < nb THEN offsets[k + 1] ELSE Len(indices)
    IN  IF \E k \in 1..nb : end(k) > Len(indices) /\ begin(k) < end(k)
        THEN [err |-> "undefined", out |-> <<>>]
        ELSE IF \E k \in 1..nb : \E e \in (begin(k) + 1)..end(k) :
                    indices[e] >= Len(weight)
        THEN [err |-> "IndexError", out |-> <<>>]
        ELSE [err |-> "none",
              out |-> [k \in 1..nb |-> BagSum(weight, indices, begin(k), end(k), embed_dim)]]

\* num / den rounded to the nearest integer, num of either sign
RoundQuot(num, den) == RoundDiv(num + 4096 * den, den) - 4096

\* the sum of the decoded rows of a byte-packed table at indices[a .. b-1],
\* times 255; a table copied from a one-row tensor has that row everywhere
RECURSIVE PackedBagSum(_, _, _, _, _)
PackedBagSum(packed, indices, a, b, dim) ==
    IF a >= b THEN Zeros(dim)
    ELSE VecAdd(DequantizeByteRow(packed[IF Len(packed) = 1 THEN 1 ELSE indices[a + 1] + 1]),
                PackedBagSum(packed, indices, a + 1, b, dim))

\* lines 190-225: fbgemm's SplitTableBatchedEmbeddingBagsCodegen with INT8
\* weights, one table of (num_embedding_rows, embed_dim - 8) per packed
\* tensor, the packed tensors copied into its weights, then
\* forward(indices, offsets): offsets holds T * B + 1 boundaries, table by
\* table, and the indices of every table are rows of that table.  The result
\* has one row per batch row: the decoded bag sums of the T tables side by
\* side.  What the kernel does outside this contract is not defined.
SplitTableBatchedEmbeddingBags(tensors, num_embedding_rows, embed_dim, indices, offsets) ==
    LET T == Len(tensors)
        dim == embed_dim - 8
        nb == Len(offsets) - 1
        B == nb \div T
        begin(t, b) == offsets[(t - 1) * B + b]
        end(t, b) == offsets[(t - 1) * B + b + 1]
    IN  IF \E t \in 1..T : Len(tensors[t]) # num_embedding_rows /\ Len(tensors[t]) # 1
        THEN [err |-> "RuntimeError", out |-> <<>>]
        ELSE IF nb % T # 0
        THEN [err |-> "undefined", out |-> <<>>]
        ELSE IF \E t \in 1..T : \E b \in 1..B :
                    \/ begin(t, b) > end(t, b)
                    \/ end(t, b) > Len(indices)
                    \/ \E e \in (begin(t, b) + 1)..end(t, b) :
                           indices[e] < 0 \/ indices[e] >= num_embedding_rows
        THEN [err |-> "undefined", out |-> <<>>]
        ELSE [err |-> "none",
              out |-> [b \in 1..B |-> Flatten([t \in 1..T |->
                          [c \in 1..dim |->
                              RoundQuot(PackedBagSum(tensors[t], indices, begin(t, b),
                                                     end(t, b), dim)[c], 255)]])]]

infer_gpu(list_of_embedding_tables_tensors, num_embedding_rows, embed_dim, num_tables, indices, offsets, quantize_emb, quantize_bits) ==
    IF offsets.type # "tensor"
    THEN [err |-> "AttributeError", result |-> <<>>, offsets |-> offsets.v, indices |-> indices]
    ELSE
    With(infer_gpu_loop(
             [offsets |-> offsets.v, indices |-> indices,
              prefix_sum_offsets |-> <<0>>, prefix_sum_indices |-> <<0>>,
              err |-> "none"],
             0, num_tables, num_embedding_rows), LAMBDA st :
    With(Flatten(st.indices), LAMBDA flat_indices :
    With(concatenated_embedding_tables(list_of_embedding_tables_tensors,
                                       num_embedding_rows, 0), LAMBDA cat :
    With(EmbeddingBag(cat.weight, embed_dim, flat_indices,
                      Flatten(st.offsets) \o <<Len(flat_indices)>>), LAMBDA bag :
        IF st.err # "none"
        THEN [err |-> st.err, result |-> <<>>, offsets |-> st.offsets, indices |-> st.indices]
        ELSE IF quantize_bits = 4
        THEN \* lines 167-180: the Int4 module is built from the table shapes;
             \* its weights are never filled from the packed tables
             [err |-> "undefined", result |-> <<>>, offsets |-> st.offsets, indices |-> st.indices]
        ELSE IF quantize_bits = 8
        THEN With(SplitTableBatchedEmbeddingBags(list_of_embedding_tables_tensors,
                      num_embedding_rows, embed_dim, flat_indices,
                      Flatten(st.offsets) \o <<Len(flat_indices)>>), LAMBDA fb :
                 IF fb.err # "none"
                 THEN [err |-> fb.err, result |-> <<>>, offsets |-> st.offsets, indices |-> st.indices]
                 ELSE \* line 227: r = [result[:, i:i+32] for i in range(num_tables)]
                      [err |-> "none",
                       result |-> [i \in 1..num_tables |->
                                      [b \in 1..Len(fb.out) |-> Slice(fb.out[b], i - 1, i + 31)]],
                       offsets |-> st.offsets, indices |-> st.indices])
        ELSE IF cat.err # "none"
        THEN [err |-> cat.err, result |-> <<>>, offsets |-> st.offsets, indices |-> st.indices]
        ELSE IF bag.err # "none"
        THEN [err |-> bag.err, result |-> <<>>, offsets |-> st.offsets, indices |-> st.indices]
        ELSE [err |-> "none",
              result |-> [i \in 1..num_tables |->
                             Slice(bag.out, st.prefix_sum_offsets[i],
                                   st.prefix_sum_offsets[i + 1])],
              offsets |-> st.offsets, indices |-> st.indices]))))

\* DLRM_Net.apply_emb
apply_emb(self, lS_o_arg, lS_i_arg, emb_l) ==
    With(IF emb_l.none THEN [k \in 1..Len(self.emb_l_q) |-> self.emb_l_q[k].v]
         ELSE [k \in 1..Len(emb_l.v) |-> emb_l.v[k].weight],
         LAMBDA list_of_embedding_tables_tensors :
        IF list_of_embedding_tables_tensors = <<>>
        THEN [err |-> "IndexError", result |-> <<>>,
              offsets |-> lS_o_arg.v, indices |-> lS_i_arg]
        ELSE IF emb_l.none /\ self.emb_l_q[1].none
        THEN [err |-> "TypeError", result |-> <<>>,
              offsets |-> lS_o_arg.v, indices |-> lS_i_arg]
        ELSE infer_gpu(list_of_embedding_tables_tensors,
                       Len(list_of_embedding_tables_tensors[1]),
                       Len(list_of_embedding_tables_tensors[1][1]),
                       Len(list_of_embedding_tables_tensors),
                       lS_i_arg, lS_o_arg, self.quantize_emb, self.quantize_bits))

(***************************************************************************)
(* DLRM_Net.quantize_embedding.                                            *)
(***************************************************************************)
\* the loop of lines 686-698 from table k on; q is self.emb_l_q so far.
\* returned tells that the loop left the method through its "return"
RECURSIVE quantize_embedding_loop(_, _, _, _)
quantize_embedding_loop(emb_l, q, bits, k) ==
    IF k >= Len(emb_l)
    THEN [err |-> "none", returned |-> FALSE, emb_l_q |-> q]
    ELSE IF bits = 4
    THEN With(embedding_bag_4bit_prepack(emb_l[k + 1].weight), LAMBDA p :
             IF p.err # "none"
             THEN [err |-> p.err, returned |-> FALSE, emb_l_q |-> q]
             ELSE quantize_embedding_loop(emb_l, [q EXCEPT ![k + 1] = PyObj(p.packed)],
                                          bits, k + 1))
    ELSE IF bits = 8
    THEN With(embedding_bag_byte_prepack(emb_l[k + 1].weight), LAMBDA p :
             IF p.err # "none"
             THEN [err |-> p.err, returned |-> FALSE, emb_l_q |-> q]
             ELSE quantize_embedding_loop(emb_l, [q EXCEPT ![k + 1] = PyObj(p.packed)],
                                          bits, k + 1))
    ELSE [err |-> "none", returned |-> TRUE, emb_l_q |-> q]

\* quantize_embedding without "self.emb_l = None"
quantize_embedding_keeping_emb_l(self, bits) ==
    IF self.emb_l.none
    THEN [err |-> "TypeError", self |-> self]
    ELSE With(quantize_embedding_loop(self.emb_l.v, [k \in 1..Len(self.emb_l.v) |-> PyNone], bits, 0), LAMBDA l :
             IF l.err # "none" \/ l.returned
             THEN [err |-> l.err, self |-> [self EXCEPT !.emb_l_q = l.emb_l_q]]
             ELSE [err |-> "none",
                   self |-> [self EXCEPT !.emb_l_q = l.emb_l_q,
                                         !.quantize_emb = TRUE, !.quantize_bits = bits]])

\* the object after the call and the error raised, if any
quantize_embedding(self, bits) ==
    IF self.emb_l.none
    THEN \* n = len(self.emb_l)
         [err |-> "TypeError", self |-> self]
    ELSE With(quantize_embedding_loop(self.emb_l.v, [k \in 1..Len(self.emb_l.v) |-> PyNone], bits, 0), LAMBDA l :
             IF l.err # "none" \/ l.returned
             THEN [err |-> l.err, self |-> [self EXCEPT !.emb_l_q = l.emb_l_q]]
             ELSE [err |-> "none",
                   self |-> [self EXCEPT !.emb_l_q = l.emb_l_q, !.emb_l = PyNone,
                                         !.quantize_emb = TRUE, !.quantize_bits = bits]])

(***************************************************************************)
(* DLRM_Net.interact_features.                                             *)
(***************************************************************************)
\* the index pairs (li[k], lj[k]) of lines 741-742
RECURSIVE tril_pairs_by_column(_, _, _)
RECURSIVE tril_pairs_without_self(_, _, _)
RECURSIVE tril_pairs(_, _, _)
\* the same pairs scanned column by column (j outer, i inner)
tril_pairs_by_column(j, ni, offset) ==
    IF j >= ni THEN <<>>
    ELSE [k \in 1..(ni - j - 1 + offset) |-> <<j + k - offset, j>>] \o tril_pairs_by_column(j + 1, ni, offset)

\* the pairs below the diagonal only, whatever the offset
tril_pairs_without_self(i, ni, offset) ==
    IF i >= ni THEN <<>>
    ELSE [j \in 1..i |-> <<i, j - 1>>] \o tril_pairs_without_self(i + 1, ni, offset)

tril_pairs(i, ni, offset) ==
    IF i >= ni THEN <<>>
    ELSE [j \in 1..(i + offset) |-> <<i, j - 1>>] \o tril_pairs(i + 1, ni, offset)

\* torch.cat([x] + ly, dim=1): needs every tensor to have x's row count
cat_dim1(xx, lyy) ==
    IF \E t \in 1..Len(lyy) : Len(lyy[t]) # Len(xx)
    THEN [err |-> "RuntimeError", out |-> <<>>]
    ELSE [err |-> "none",
          out |-> [b \in 1..Len(xx) |->
                      xx[b] \o Flatten([t \in 1..Len(lyy) |-> lyy[t][b]])]]

\* the concatenation alone, whatever the interaction mode
interact_features_concat(self, xx, lyy) == cat_dim1(xx, lyy)

interact_features(self, xx, lyy) ==
    With(cat_dim1(xx, lyy), LAMBDA c :
        IF self.arch_interaction_op = "dot"
        THEN LET d == Len(xx[1])
             IN  IF c.err # "none" THEN c
                 ELSE IF Len(c.out[1]) % d # 0
                 THEN [err |-> "RuntimeError", out |-> <<>>]
                 ELSE LET ni == Len(c.out[1]) \div d
                          T(b) == [i \in 1..ni |-> Slice(c.out[b], (i - 1) * d, i * d)]
                          offset == IF self.arch_interaction_itself THEN 1 ELSE 0
                      IN  With(tril_pairs(0, ni, offset), LAMBDA lij :
                              [err |-> "none",
                               out |-> [b \in 1..Len(xx) |->
                                   xx[b] \o [k \in 1..Len(lij) |->
                                       Dot(T(b)[lij[k][1] + 1], T(b)[lij[k][2] + 1])]]])
        ELSE IF self.arch_interaction_op = "cat"
        THEN c
        ELSE [err |-> "SystemExit", out |-> <<>>])

(***************************************************************************)
(* The three forward strategies.                                           *)
(***************************************************************************)
\* the scores as the top encoder gave them
clamp_output_skipped(self, p) == p

\* torch.clamp(p, min=loss_threshold, max=1 - loss_threshold), in thousandths
\* (min(max(p, lo), hi): where lo > hi every element becomes hi)
clamp_output(self, p) ==
    IF 0 < self.loss_threshold /\ self.loss_threshold < 1000
    THEN [b \in 1..Len(p) |-> [c \in 1..Len(p[b]) |->
             Min(IF p[b][c] < self.loss_threshold THEN self.loss_threshold ELSE p[b][c],
                 1000 - self.loss_threshold)]]
    ELSE p

\* DLRM_Net.forward: the strategy a call is dispatched to
forward(self, size) ==
    IF size > 1 THEN "distributed_forward"
    ELSE IF self.ndevices <= 1 THEN "sequential_forward"
    ELSE "parallel_forward"

\* DLRM_Net.sequential_forward: the error raised or the scores returned (z),
\* the locals x and ly, the caller's sparse batch after the call and the
\* steps performed
sequential_forward(self, dense_x, lS_o_arg, lS_i_arg) ==
    With(apply_mlp(dense_x, self.bot_l), LAMBDA xr :
    With(apply_emb(self, [type |-> "tensor", v |-> lS_o_arg], lS_i_arg, self.emb_l),
         LAMBDA e :
    With(interact_features(self, xr.out, e.result), LAMBDA zr :
    With(apply_mlp(zr.out, self.top_l), LAMBDA pr :
        IF xr.err # "none"
        THEN [err |-> xr.err, z |-> <<>>, x |-> <<>>, ly |-> <<>>,
              lS_o |-> lS_o_arg, lS_i |-> lS_i_arg, log |-> <<>>]
        ELSE IF e.err # "none"
        THEN [err |-> e.err, z |-> <<>>, x |-> xr.out, ly |-> <<>>,
              lS_o |-> e.offsets, lS_i |-> e.indices, log |-> <<"bot_l">>]
        ELSE IF zr.err # "none"
        THEN [err |-> zr.err, z |-> <<>>, x |-> xr.out, ly |-> e.result,
              lS_o |-> e.offsets, lS_i |-> e.indices, log |-> <<"bot_l", "apply_emb">>]
        ELSE IF pr.err # "none"
        THEN [err |-> pr.err, z |-> <<>>, x |-> xr.out, ly |-> e.result,
              lS_o |-> e.offsets, lS_i |-> e.indices,
              log |-> <<"bot_l", "apply_emb", "interact_features">>]
        ELSE [err |-> "none", z |-> clamp_output(self, pr.out),
              x |-> xr.out, ly |-> e.result,
              lS_o |-> e.offsets, lS_i |-> e.indices,
              log |-> <<"bot_l", "apply_emb", "interact_features", "top_l", "clamp">>]))))

\* torch.nn.parallel.scatter(t, device_ids, dim=0): torch.chunk into
\* len(device_ids) chunks of ceil(rows / n) rows, the empty ones dropped
scatter(t, n) ==
    IF n = 0 THEN <<>>
    ELSE LET size == (Len(t) + n - 1) \div n
             count == IF size = 0 THEN 0 ELSE (Len(t) + size - 1) \div size
         IN  [k \in 1..count |-> Slice(t, (k - 1) * size, k * size)]

\* the replicas applied to the shards (parallel_apply needs as many inputs as
\* modules)
RECURSIVE parallel_apply(_, _)
parallel_apply(replicas, inputs) ==
    IF Len(replicas) # Len(inputs)
    THEN [err |-> "AssertionError", out |-> <<>>]
    ELSE IF replicas = <<>>
    THEN [err |-> "none", out |-> <<>>]
    ELSE With(apply_mlp(inputs[1], replicas[1]), LAMBDA head :
         With(parallel_apply(Tail(replicas), Tail(inputs)), LAMBDA rest :
             IF head.err # "none" THEN [err |-> head.err, out |-> <<>>]
             ELSE IF rest.err # "none" THEN rest
             ELSE [err |-> "none", out |-> <<head.out>> \o rest.out]))

\* zip(*t_list) stops at the shortest list
RECURSIVE zip_len(_)
zip_len(lists) ==
    IF lists = <<>> THEN 0
    ELSE IF Len(lists) = 1 THEN Len(lists[1])
    ELSE Min(Len(lists[1]), zip_len(Tail(lists)))

\* lines 971-974: interact_features on every device's shard
RECURSIVE interact_per_device(_, _, _)
interact_per_device(self, xs, lys) ==
    IF xs = <<>> THEN [err |-> "none", out |-> <<>>]
    ELSE IF lys = <<>> THEN [err |-> "IndexError", out |-> <<>>]
    ELSE With(interact_features(self, xs[1], lys[1]), LAMBDA head :
         With(interact_per_device(self, Tail(xs), Tail(lys)), LAMBDA rest :
             IF head.err # "none" THEN [err |-> head.err, out |-> <<>>]
             ELSE IF rest.err # "none" THEN rest
             ELSE [err |-> "none", out |-> <<head.out>> \o rest.out]))

\* DLRM_Net.parallel_forward: the object after the call (self), the error
\* raised or the scores returned, the caller's sparse batch, and whether the
\* call replicated the encoders (lines 899-912)
parallel_forward(self, dense_x, lS_o_arg, lS_i_arg) ==
    LET batch_size == Len(dense_x)
        ndevices == Min(self.ndevices, Min(batch_size, Len(self.emb_l.v)))
        not_prepared == IF self.parallel_model_batch_size # batch_size
                        THEN TRUE ELSE self.parallel_model_is_not_prepared
        replicated == not_prepared \/ self.sync_dense_params
        n == Len(self.emb_l.v)
        fail(er, st) == [err |-> er, z |-> <<>>, self |-> st,
                         lS_o |-> lS_o_arg, lS_i |-> lS_i_arg,
                         replicated |-> er # "TypeError" /\ replicated]
    IN  IF self.emb_l.none
        THEN fail("TypeError", self)
        ELSE
        With([self EXCEPT
                 !.bot_l_replicas = IF replicated THEN [k \in 1..ndevices |-> self.bot_l]
                                    ELSE @,
                 !.top_l_replicas = IF replicated THEN [k \in 1..ndevices |-> self.top_l]
                                    ELSE @,
                 !.parallel_model_batch_size = IF replicated THEN batch_size ELSE @,
                 !.parallel_model_is_not_prepared = FALSE], LAMBDA self1 :
        With(parallel_apply(self1.bot_l_replicas, scatter(dense_x, ndevices)), LAMBDA xr :
        With(apply_emb(self1, [type |-> "list", v |-> [k \in 1..n |-> lS_o_arg[k]]],
                       [k \in 1..n |-> lS_i_arg[k]], self1.emb_l), LAMBDA e :
        With([k \in 1..n |-> scatter(e.result[k], ndevices)], LAMBDA y_list :
        With(interact_per_device(self1, xr.out,
                 [dev \in 1..zip_len(y_list) |-> [k \in 1..n |-> y_list[k][dev]]]),
             LAMBDA zr :
        With(parallel_apply(self1.top_l_replicas, zr.out), LAMBDA pr :
            IF ndevices = 0
            THEN \* scatter over an empty device list
                 fail("RuntimeError", self1)
            ELSE IF n # Len(lS_o_arg) \/ n # Len(lS_i_arg)
            THEN fail("SystemExit", self1)
            ELSE IF xr.err # "none"
            THEN fail(xr.err, self1)
            ELSE IF e.err # "none"
            THEN fail(e.err, self1)
            ELSE IF n # Len(e.result)
            THEN fail("SystemExit", self1)
            ELSE IF zr.err # "none"
            THEN fail(zr.err, self1)
            ELSE IF pr.err # "none"
            THEN fail(pr.err, self1)
            ELSE [err |-> "none", z |-> clamp_output(self1, Flatten(pr.out)),
                  self |-> self1, lS_o |-> lS_o_arg, lS_i |-> lS_i_arg,
                  replicated |-> replicated]))))))

(***************************************************************************)
(* extend_distributed: the two collectives.  sent maps every rank to what  *)
(* it handed to the collective.                                            *)
(***************************************************************************)
\* what rank r receives from ranks q, q+1, ...: every table of every rank in
\* rank order, cut to the rows of rank r
RECURSIVE alltoall_from(_, _, _, _)
alltoall_from(sent, q, r, R) ==
    IF q >= R THEN <<>>
    ELSE [j \in 1..Len(sent[q]) |->
             LET sl == get_my_slice(Len(sent[q][j]), r, R)
             IN  Slice(sent[q][j], sl.start, sl.stop)]
         \o alltoall_from(sent, q + 1, r, R)

alltoall(sent, r, R) == alltoall_from(sent, 0, r, R)

\* every rank receives the ranks' tensors concatenated in rank order
RECURSIVE all_gather_from(_, _, _)
all_gather_from(sent, q, R) ==
    IF q >= R THEN <<>> ELSE sent[q] \o all_gather_from(sent, q + 1, R)

all_gather(sent, R) == all_gather_from(sent, 0, R)

(***************************************************************************)
(* DLRM_Net.distributed_forward on rank r of R, in the three stretches     *)
(* between its collective calls.                                           *)
(***************************************************************************)
\* t[sl] = v for a slice sl of t that is a view: v written back into t
WriteBack(t, start, v) ==
    [k \in 1..Len(t) |-> IF start < k /\ k <= start + Len(v) THEN v[k - start] ELSE t[k]]

\* lines 834-855: the slices of the sparse batch, the table-count check, the
\* lookup; ly is what the rank hands to ext_dist.alltoall
distributed_forward_sliced(self, dense_x, lS_o_arg, lS_i_arg, r, R) ==
    LET sl == self.local_emb_slice
        lS_o_loc == Slice(lS_o_arg, sl.start, sl.stop)
        lS_i_loc == Slice(lS_i_arg, sl.start, sl.stop)
        fail(er, lg) == [err |-> er, ly |-> <<>>, lS_o |-> lS_o_arg, lS_i |-> lS_i_arg,
                         log |-> lg]
        done(er, e, lg) == [err |-> er, ly |-> IF er = "none" THEN e.result ELSE <<>>,
                            lS_o |-> WriteBack(lS_o_arg, sl.start, e.offsets),
                            lS_i |-> WriteBack(lS_i_arg, sl.start, e.indices),
                            log |-> lg]
    IN  IF self.emb_l.none
        THEN fail("TypeError", <<"slice">>)
        ELSE IF Len(self.emb_l.v) # Len(lS_o_loc) \/ Len(self.emb_l.v) # Len(lS_i_loc)
        THEN fail("SystemExit: corrupted model input", <<"slice">>)
        ELSE With(apply_emb(self, [type |-> "tensor", v |-> lS_o_loc], lS_i_loc, self.emb_l),
                  LAMBDA e :
            IF e.err # "none"
            THEN done(e.err, e, <<"slice">>)
            ELSE IF Len(self.emb_l.v) # Len(e.result)
            THEN done("SystemExit: corrupted intermediate result", e, <<"slice", "apply_emb">>)
            ELSE done("none", e, <<"slice", "apply_emb", "alltoall">>))

\* distributed_forward without the batch-size checks of lines 827-832
distributed_forward_unchecked(self, dense_x, lS_o_arg, lS_i_arg, r, R) ==
    distributed_forward_sliced(self, dense_x, lS_o_arg, lS_i_arg, r, R)

\* lines 827-855: the batch-size checks first, then the slices and the lookup
distributed_forward_lookup(self, dense_x, lS_o_arg, lS_i_arg, r, R) ==
    LET batch_size == Len(dense_x)
        fail(er) == [err |-> er, ly |-> <<>>, lS_o |-> lS_o_arg, lS_i |-> lS_i_arg,
                     log |-> <<>>]
    IN  IF batch_size < R
        THEN fail("SystemExit: batch_size must be larger than number of ranks")
        ELSE IF batch_size % R # 0
        THEN fail("SystemExit: batch_size can not split across ranks evenly")
        ELSE distributed_forward_sliced(self, dense_x, lS_o_arg, lS_i_arg, r, R)

\* the bottom encoder applied to the first rows of the dense batch on every
\* rank, instead of the rank's own rows
distributed_forward_bot_first_rows(self, dense_x, r, R) ==
    apply_mlp(Slice(dense_x, 0, Len(dense_x) \div R), self.bot_l)

\* lines 834 and 857: the bottom encoder on the rank's rows of the dense batch
distributed_forward_bot(self, dense_x, r, R) ==
    LET sl == get_my_slice(Len(dense_x), r, R)
    IN  apply_mlp(Slice(dense_x, sl.start, sl.stop), self.bot_l)

\* lines 863-879: interaction, top encoder and clamp on what the all-to-all
\* delivered; z is what the rank hands to ext_dist.all_gather
distributed_forward_top(self, xx, lyy) ==
    With(interact_features(self, xx, lyy), LAMBDA zr :
    With(apply_mlp(zr.out, self.top_l), LAMBDA pr :
        IF zr.err # "none"
        THEN [err |-> zr.err, z |-> <<>>, log |-> <<"wait">>]
        ELSE IF pr.err # "none"
        THEN [err |-> pr.err, z |-> <<>>, log |-> <<"wait", "interact_features">>]
        ELSE [err |-> "none", z |-> clamp_output(self, pr.out),
              log |-> <<"wait", "interact_features", "top_l", "clamp", "all_gather">>]))

\* a collective completes once every rank has entered it
alltoall_complete == \A q \in DOMAIN a2a : ~a2a[q].none

all_gather_complete == \A q \in DOMAIN ag : ~ag[q].none

\* a wait that returns at once, whatever the peers have done
a2a_req_no_wait(r) == TRUE

\* line 861, ly = a2a_req.wait(): the rank goes on when the all-to-all is complete
a2a_req_wait(r) == alltoall_complete

\* line 886, z = ext_dist.all_gather(...): a blocking call
all_gather_wait(r) == all_gather_complete

(***************************************************************************)
(* The main script's derivation of the top encoder's input width           *)
(* (lines 1244-1259) and the configurations and batches explored.          *)
(***************************************************************************)
\* the width counted over the tables only, the dense feature left out
num_int_without_dense(n_emb, m_den_out, arch_interaction_op, arch_interaction_itself, arch_project_size) ==
    IF arch_interaction_op = "dot"
    THEN IF arch_interaction_itself
         THEN (n_emb * (n_emb + 1)) \div 2 + m_den_out
         ELSE (n_emb * (n_emb - 1)) \div 2 + m_den_out
    ELSE n_emb * m_den_out

num_int(n_emb, m_den_out, arch_interaction_op, arch_interaction_itself, arch_project_size) ==
    LET num_fea == n_emb + 1
    IN  IF arch_interaction_op = "dot"
        THEN IF arch_project_size > 0
             THEN num_fea * arch_project_size + m_den_out
             ELSE IF arch_interaction_itself
             THEN (num_fea * (num_fea + 1)) \div 2 + m_den_out
             ELSE (num_fea * (num_fea - 1)) \div 2 + m_den_out
        ELSE num_fea * m_den_out

\* --numpy-rand-seed, --arch-sparse-feature-size and the dense feature width
numpy_rand_seed == 123

m_spa == 2

m_den == 4

\* seeds of the batch generator
Seeds == {0, 1}

\* interaction mode, self-interaction flag, loss threshold (thousandths)
Modes ==
    {[op |-> "dot", itself |-> FALSE, loss_threshold |-> 0],
     [op |-> "dot", itself |-> TRUE, loss_threshold |-> 300],
     [op |-> "cat", itself |-> FALSE, loss_threshold |-> 300],
     [op |-> "cat", itself |-> FALSE, loss_threshold |-> 700]}

\* row-count lists of T tables: n rows everywhere, but for at most one table
RowLists(T) ==
    {[t \in 1..T |-> IF t - 1 = k THEN (n % MaxRows) + 1 ELSE n] :
        n \in 1..MaxRows, k \in -1..(T - 1)}

\* what is wrong with a batch: nothing, an index equal to the row count of
\* table k, one table too few or one too many in both lists
Corruptions(T) ==
    {[kind |-> "none", k |-> 0], [kind |-> "short", k |-> 0], [kind |-> "long", k |-> 0]}
    \cup {[kind |-> "oob", k |-> k] : k \in 0..(T - 1)}

\* segment i of table t has (seed + t + i) % 3 indices
SegLen(seed, t, i) == (seed + t + i) % 3

Segment(seed, t, i, rows) ==
    [j \in 1..SegLen(seed, t, i) |-> (seed + t + 2 * i + j) % rows]

GenBatch(seed, B, ln, corrupt) ==
    LET T == Len(ln)
        Tb == CASE corrupt.kind = "short" -> T - 1
                [] corrupt.kind = "long" -> T + 1
                [] OTHER -> T
        rows(t) == IF t < T THEN ln[t + 1] ELSE ln[T]
    IN  [dense_x |-> [b \in 1..B |-> [c \in 1..m_den |-> (seed + b + c) % 3]],
         lS_o |-> [t \in 1..Tb |-> [i \in 1..B |->
                     SumSeq([i2 \in 1..(i - 1) |-> SegLen(seed, t - 1, i2 - 1)])]],
         lS_i |-> [t \in 1..Tb |->
                     Flatten([i \in 1..B |-> Segment(seed, t - 1, i - 1, rows(t - 1))])
                     \o (IF corrupt.kind = "oob" /\ corrupt.k = t - 1
                         THEN <<rows(t - 1)>> ELSE <<>>)]]

Ranks == 0..(my_size - 1)

Init ==
    \E R \in 1..MaxRanks, T \in 1..MaxTables, B \in 1..MaxBatch, seed \in Seeds,
       mode \in Modes :
    \E ln \in RowLists(T), corrupt \in Corruptions(T),
       nd \in (IF R = 1 THEN 1..MaxDevices ELSE {1}) :
        LET ln_bot == <<m_den, m_spa>>
            ln_top == <<num_int(T, m_spa, mode.op, mode.itself, 0), 1>>
        IN
        \E b \in {GenBatch(seed, B, ln, corrupt)},
           built \in {[r \in 0..(R - 1) |->
                         DLRM_Net_init(m_spa, ln, ln_bot, ln_top, mode.op, mode.itself,
                                       -1, Len(ln_top) - 2, TRUE, mode.loss_threshold,
                                       nd, r, R, numpy_rand_seed % 16)]} :
            /\ my_size = R
            /\ args = <<>>
            /\ loop = <<>>
            /\ ln_emb = ln
            /\ net = [r \in 0..(R - 1) |-> built[r].self]
            /\ np_random = [r \in 0..(R - 1) |-> built[r].state]
            /\ batch0 = b
            /\ lS_o = [r \in 0..(R - 1) |-> b.lS_o]
            /\ lS_i = [r \in 0..(R - 1) |-> b.lS_i]
            /\ pc = [r \in 0..(R - 1) |-> "start"]
            /\ error = [r \in 0..(R - 1) |-> "none"]
            /\ x = [r \in 0..(R - 1) |-> <<>>]
            /\ ly = [r \in 0..(R - 1) |-> <<>>]
            /\ a2a = [r \in 0..(R - 1) |-> PyNone]
            /\ ag = [r \in 0..(R - 1) |-> PyNone]
            /\ z = [r \in 0..(R - 1) |-> <<>>]
            /\ log = [r \in 0..(R - 1) |-> <<>>]

(***************************************************************************)
(* Actions: one forward call per process.                                  *)
(***************************************************************************)
Ended(er) == IF er = "none" THEN "done" ELSE "aborted"

SequentialForward ==
    /\ pc[0] = "start"
    /\ forward(net[0], my_size) = "sequential_forward"
    /\ \E res \in {sequential_forward(net[0], batch0.dense_x, lS_o[0], lS_i[0])} :
           /\ pc' = [pc EXCEPT ![0] = Ended(res.err)]
           /\ error' = [error EXCEPT ![0] = res.err]
           /\ x' = [x EXCEPT ![0] = res.x]
           /\ ly' = [ly EXCEPT ![0] = res.ly]
           /\ z' = [z EXCEPT ![0] = res.z]
           /\ lS_o' = [lS_o EXCEPT ![0] = res.lS_o]
           /\ lS_i' = [lS_i EXCEPT ![0] = res.lS_i]
           /\ log' = [log EXCEPT ![0] = res.log]
    /\ UNCHANGED <<loop, args, my_size, ln_emb, np_random, net, batch0, a2a, ag>>

ParallelForward ==
    /\ pc[0] = "start"
    /\ forward(net[0], my_size) = "parallel_forward"
    /\ \E res \in {parallel_forward(net[0], batch0.dense_x, lS_o[0], lS_i[0])} :
           /\ pc' = [pc EXCEPT ![0] = Ended(res.err)]
           /\ error' = [error EXCEPT ![0] = res.err]
           /\ z' = [z EXCEPT ![0] = res.z]
           /\ net' = [net EXCEPT ![0] = res.self]
           /\ lS_o' = [lS_o EXCEPT ![0] = res.lS_o]
           /\ lS_i' = [lS_i EXCEPT ![0] = res.lS_i]
    /\ UNCHANGED <<loop, args, my_size, ln_emb, np_random, batch0, x, ly, a2a, ag, log>>

DistLookup(r) ==
    /\ pc[r] = "start"
    /\ forward(net[r], my_size) = "distributed_forward"
    /\ \E res \in {distributed_forward_lookup(net[r], batch0.dense_x, lS_o[r], lS_i[r],
                                              r, my_size)} :
           /\ pc' = [pc EXCEPT ![r] = IF res.err = "none" THEN "bot" ELSE "aborted"]
           /\ error' = [error EXCEPT ![r] = res.err]
           /\ ly' = [ly EXCEPT ![r] = res.ly]
           /\ a2a' = [a2a EXCEPT ![r] = IF res.err = "none" THEN PyObj(res.ly) ELSE @]
           /\ lS_o' = [lS_o EXCEPT ![r] = res.lS_o]
           /\ lS_i' = [lS_i EXCEPT ![r] = res.lS_i]
           /\ log' = [log EXCEPT ![r] = res.log]
    /\ UNCHANGED <<loop, args, my_size, ln_emb, np_random, net, batch0, x, ag, z>>

DistBot(r) ==
    /\ pc[r] = "bot"
    /\ \E res \in {distributed_forward_bot(net[r], batch0.dense_x, r, my_size)} :
           /\ pc' = [pc EXCEPT ![r] = IF res.err = "none" THEN "wait" ELSE "aborted"]
           /\ error' = [error EXCEPT ![r] = res.err]
           /\ x' = [x EXCEPT ![r] = res.out]
           /\ log' = [log EXCEPT ![r] = IF res.err = "none" THEN Append(@, "bot_l") ELSE @]
    /\ UNCHANGED <<loop, args, my_size, ln_emb, np_random, net, batch0, lS_o, lS_i, ly, a2a, ag, z>>

DistWait(r) ==
    /\ pc[r] = "wait"
    /\ a2a_req_wait(r)
    /\ \E got \in {alltoall([q \in Ranks |-> a2a[q].v], r, my_size)} :
       \E res \in {distributed_forward_top(net[r], x[r], got)} :
           /\ pc' = [pc EXCEPT ![r] = IF res.err = "none" THEN "gather" ELSE "aborted"]
           /\ error' = [error EXCEPT ![r] = res.err]
           /\ ly' = [ly EXCEPT ![r] = got]
           /\ ag' = [ag EXCEPT ![r] = IF res.err = "none" THEN PyObj(res.z) ELSE @]
           /\ log' = [log EXCEPT ![r] = @ \o res.log]
    /\ UNCHANGED <<loop, args, my_size, ln_emb, np_random, net, batch0, lS_o, lS_i, x, a2a, z>>

DistGather(r) ==
    /\ pc[r] = "gather"
    /\ all_gather_wait(r)
    /\ pc' = [pc EXCEPT ![r] = "done"]
    /\ z' = [z EXCEPT ![r] = all_gather([q \in Ranks |-> ag[q].v], my_size)]
    /\ log' = [log EXCEPT ![r] = Append(@, "return")]
    /\ UNCHANGED <<loop, args, my_size, ln_emb, np_random, net, batch0, lS_o, lS_i, error, x, ly, a2a, ag>>

Next ==
    \/ SequentialForward
    \/ ParallelForward
    \/ \E r \in Ranks : DistLookup(r)
    \/ \E r \in Ranks : DistBot(r)
    \/ \E r \in Ranks : DistWait(r)
    \/ \E r \in Ranks : DistGather(r)

Spec == Init /\ [][Next]_vars

(***************************************************************************)
(* Reference values the properties compare against.                        *)
(***************************************************************************)
NumTables == Len(ln_emb)

\* the weights of global table t (0-based), from its seed and shape
TableWeight(t) == np_random_uniform(net[0].l_emb_seeds[t + 1], ln_emb[t + 1], m_spa)

\* the explicit sum of W's rows at the indices of segment i (0-based) of a
\* table's index list and offsets
RECURSIVE RowSum(_, _)
RowSum(W, idxs) ==
    IF idxs = <<>> THEN Zeros(m_spa) ELSE VecAdd(W[idxs[1] + 1], RowSum(W, Tail(idxs)))

SegmentOf(indices, offsets, i) ==
    Slice(indices, offsets[i + 1],
          IF i + 1 < Len(offsets) THEN offsets[i + 2] ELSE Len(indices))

SegmentSum(t, i) ==
    RowSum(TableWeight(t), SegmentOf(batch0.lS_i[t + 1], batch0.lS_o[t + 1], i))

BatchSize == Len(batch0.dense_x)

\* the batch names every table once and every index is a row of its table
BatchListsMatch == Len(batch0.lS_i) = NumTables /\ Len(batch0.lS_o) = NumTables

BatchIsValid ==
    /\ BatchListsMatch
    /\ \A t \in 1..NumTables : \A e \in 1..Len(batch0.lS_i[t]) :
           batch0.lS_i[t][e] < ln_emb[t]

Strategy == forward(net[0], my_size)

\* the tables rank r looks up, as global table numbers (0-based), in order
LocalTables(r) ==
    IF my_size = 1 THEN [j \in 1..NumTables |-> j - 1]
    ELSE [j \in 1..(net[r].local_emb_slice.stop - net[r].local_emb_slice.start) |->
             net[r].local_emb_slice.start + j - 1]

InLog(r, step) == \E k \in 1..Len(log[r]) : log[r][k] = step

\* apply_emb was called by rank r's forward call, and it returned
LookupCalled(r) ==
    \/ Strategy = "sequential_forward" /\ pc[r] # "start" /\ x[r] # <<>>
    \/ Strategy = "distributed_forward" /\ pc[r] # "start" /\ InLog(r, "slice")
          /\ error[r] # "SystemExit: corrupted model input"

LookupReturned(r) == InLog(r, "apply_emb")

\* what apply_emb returned on rank r
LookupResult(r) == IF my_size = 1 THEN ly[r] ELSE a2a[r].v

\* the same weights in one process: rank 0's object holding every table
SequentialNet ==
    [net[0] EXCEPT
        !.emb_l = PyObj(create_emb_from(m_spa, ln_emb, net[0].l_emb_seeds, FALSE, {}, 0)),
        !.ndevices = 1]

SequentialReference ==
    sequential_forward(SequentialNet, batch0.dense_x, batch0.lS_o, batch0.lS_i)

(***************************************************************************)
(* C1: for every model (tables may differ in row count) and every valid    *)
(* batch, the lookup apply_emb returns for table t and batch row i is the  *)
(* sum of table t's rows at the indices of segment i; an empty segment     *)
(* gives the zero vector.                                                  *)
(***************************************************************************)
C1_LookupIsSegmentSum ==
    \A r \in Ranks :
        (BatchIsValid /\ LookupCalled(r) /\ Len(LocalTables(r)) > 0) =>
            /\ LookupReturned(r)
            /\ Len(LookupResult(r)) = Len(LocalTables(r))
            /\ \A j \in 1..Len(LocalTables(r)) :
                   /\ Len(LookupResult(r)[j]) = BatchSize
                   /\ \A i \in 1..BatchSize :
                          LookupResult(r)[j][i] = SegmentSum(LocalTables(r)[j], i - 1)

\* the same, for models whose tables all have the row count of table 0
UniformRows == \A t \in 1..NumTables : ln_emb[t] = ln_emb[1]

C1_UniformLookupIsSegmentSum == UniformRows => C1_LookupIsSegmentSum

(***************************************************************************)
(* C2: in the distributed strategy, for every rank count R > 1 dividing    *)
(* the batch size and every table partition, the score vector a rank holds *)
(* after the all-gather gives every batch row, in the original row order,  *)
(* the score sequential_forward computes for that row on the same weights  *)
(* and the same (valid) batch.                                             *)
(***************************************************************************)
C2_DistributedEqualsSequential ==
    \A r \in Ranks :
        (Strategy = "distributed_forward" /\ BatchIsValid /\ pc[r] = "done") =>
            /\ SequentialReference.err = "none"
            /\ z[r] = SequentialReference.z

\* the same, for the models sequential_forward accepts
C2_DistributedEqualsSequentialWhenBothReturn ==
    \A r \in Ranks :
        (Strategy = "distributed_forward" /\ BatchIsValid /\ pc[r] = "done"
            /\ SequentialReference.err = "none") =>
            z[r] = SequentialReference.z

(***************************************************************************)
(* C3: on the same weights and the same (valid) batch, parallel_forward    *)
(* returns for every batch row, in the original row order, the score       *)
(* sequential_forward returns for that row.                                *)
(***************************************************************************)
C3_ParallelEqualsSequential ==
    (Strategy = "parallel_forward" /\ BatchIsValid /\ pc[0] # "start"
        /\ SequentialReference.err = "none") =>
        /\ pc[0] = "done"
        /\ z[0] = SequentialReference.z

(***************************************************************************)
(* C4: once the all-to-all of a distributed forward call has completed on  *)
(* rank r, the rank holds exactly one lookup result per global table, in   *)
(* global table order, each cut to the rank's own contiguous row slice:    *)
(* the rows its bottom-encoder output covers.                              *)
(***************************************************************************)
RowSlice(r) == get_my_slice(BatchSize, r, my_size)

OwnerOf(t) == CHOOSE q \in Ranks : \E k \in 1..Len(LocalTables(q)) : LocalTables(q)[k] = t

\* what the owner of global table t handed to the all-to-all for it
OwnerLookup(t) ==
    LET q == OwnerOf(t)
        k == CHOOSE k \in 1..Len(LocalTables(q)) : LocalTables(q)[k] = t
    IN  a2a[q].v[k]

AfterAllToAll(r) == Strategy = "distributed_forward" /\ InLog(r, "wait")

C4_AllToAllDeliversOwnRows ==
    \A r \in Ranks :
        AfterAllToAll(r) =>
            LET sl == RowSlice(r)
                n == sl.stop - sl.start
            IN  /\ Len(ly[r]) = NumTables
                /\ Len(x[r]) = n
                /\ \A j \in 1..n :
                       x[r][j] = apply_layers(batch0.dense_x[sl.start + j], net[r].bot_l)
                /\ \A t \in 1..NumTables :
                       /\ Len(ly[r][t]) = n
                       /\ \A j \in 1..n :
                              /\ ly[r][t][j] = OwnerLookup(t - 1)[sl.start + j]
                              /\ BatchIsValid =>
                                     ly[r][t][j] = SegmentSum(t - 1, sl.start + j - 1)

\* a rank is past the all-to-all with several tables and a slice of several rows
C4_Witness ==
    \E r \in Ranks :
        /\ AfterAllToAll(r) /\ r > 0 /\ BatchIsValid
        /\ NumTables > my_size
        /\ RowSlice(r).stop - RowSlice(r).start > 1

(***************************************************************************)
(* C5: for every table count T and rank count R > 1 the table ranges of    *)
(* the ranks are contiguous, pairwise disjoint, cover [0,T) and differ in  *)
(* size by at most 1; emb_l of a rank holds exactly the tables of its      *)
(* range in ascending global order (local table j of rank r is global      *)
(* table start_r + j), so every table is owned by exactly one rank.        *)
(***************************************************************************)
SliceLen(r) == net[r].local_emb_slice.stop - net[r].local_emb_slice.start

C5_TablePartition ==
    my_size > 1 =>
        /\ net[0].local_emb_slice.start = 0
        /\ net[my_size - 1].local_emb_slice.stop = NumTables
        /\ \A r \in Ranks : SliceLen(r) >= 0
        /\ \A r \in Ranks :
               r + 1 < my_size =>
                   net[r].local_emb_slice.stop = net[r + 1].local_emb_slice.start
        /\ \A r, q \in Ranks : SliceLen(r) - SliceLen(q) <= 1
        /\ \A r \in Ranks :
               /\ ~net[r].emb_l.none
               /\ Len(net[r].emb_l.v) = SliceLen(r)
               /\ \A j \in 1..Len(net[r].emb_l.v) :
                      LET t == net[r].local_emb_slice.start + j - 1
                      IN  /\ net[r].emb_l.v[j].name = t
                          /\ net[r].emb_l.v[j].weight = TableWeight(t)
        /\ \A t \in 0..(NumTables - 1) :
               Cardinality({r \in Ranks :
                   \E j \in 1..Len(net[r].emb_l.v) : net[r].emb_l.v[j].name = t}) = 1

\* an uneven split: more tables than ranks, not a multiple of the rank count
C5_Witness == my_size > 1 /\ NumTables > my_size /\ NumTables % my_size # 0

(***************************************************************************)
(* C6: a lookup in which an index of some table t is >= the row count of   *)
(* table t raises the input-corruption error and returns no result,        *)
(* whichever table the index belongs to (first, middle or last).           *)
(***************************************************************************)
HasIndexOutOfRange(r) ==
    \E j \in 1..Len(LocalTables(r)) :
        LET t == LocalTables(r)[j] + 1
        IN  \E e \in 1..Len(batch0.lS_i[t]) : batch0.lS_i[t][e] >= ln_emb[t]

C6_OutOfRangeIndexRaises ==
    \A r \in Ranks :
        (BatchListsMatch /\ LookupCalled(r) /\ HasIndexOutOfRange(r)) =>
            /\ error[r] # "none"
            /\ ~LookupReturned(r)

(***************************************************************************)
(* C7: in the distributed strategy a forward call whose batch size is      *)
(* smaller than the rank count or not divisible by it ends, on every       *)
(* rank, with the divisibility error before any slicing, lookup, encoder   *)
(* computation or collective operation.                                    *)
(***************************************************************************)
BadBatchSize == BatchSize < my_size \/ BatchSize % my_size # 0

C7_DivisibilityAbortsFirst ==
    \A r \in Ranks :
        (Strategy = "distributed_forward" /\ BadBatchSize) =>
            /\ pc[r] \in {"start", "aborted"}
            /\ pc[r] = "aborted" =>
                   error[r] \in
                       {"SystemExit: batch_size must be larger than number of ranks",
                        "SystemExit: batch_size can not split across ranks evenly"}
            /\ log[r] = <<>>
            /\ x[r] = <<>> /\ ly[r] = <<>> /\ z[r] = <<>>
            /\ a2a[r].none /\ ag[r].none
            /\ lS_o[r] = batch0.lS_o /\ lS_i[r] = batch0.lS_i

\* every rank has run into the error, for a batch size above the rank count
C7_Witness ==
    /\ Strategy = "distributed_forward"
    /\ BatchSize > my_size /\ BatchSize % my_size # 0
    /\ \A r \in Ranks : pc[r] = "aborted"

(***************************************************************************)
(* C8: a forward call whose index list and offset list do not both hold    *)
(* exactly one entry per embedding table returns no scores, under every    *)
(* strategy, whether the lists are too short or too long.                  *)
(***************************************************************************)
C8_TableCountMismatchIsFatal ==
    \A r \in Ranks : ~BatchListsMatch => (pc[r] # "done" /\ z[r] = <<>>)

(***************************************************************************)
(* C9: in the distributed strategy, if a rank aborts its forward call      *)
(* before entering the all-to-all, no other rank's call returns: no peer   *)
(* gets past the all-to-all wait and no peer returns a score vector.       *)
(***************************************************************************)
AbortedBeforeAllToAll(r) ==
    Strategy = "distributed_forward" /\ pc[r] = "aborted" /\ a2a[r].none

C9_FailedRankStallsPeers ==
    \A r \in Ranks :
        AbortedBeforeAllToAll(r) =>
            \A q \in Ranks :
                /\ pc[q] \notin {"gather", "done"}
                /\ ~InLog(q, "wait")
                /\ ag[q].none
                /\ z[q] = <<>>

\* one rank has aborted, a peer has entered the all-to-all and is waiting
C9_Witness ==
    \E r, q \in Ranks :
        /\ AbortedBeforeAllToAll(r)
        /\ pc[q] = "wait" /\ ~a2a[q].none

(***************************************************************************)
(* The interaction step on its own: interact_features applied to a dense   *)
(* output of B rows of width d and T lookup results of the same shape.     *)
(***************************************************************************)
InitInteract ==
    \E T \in 0..MaxTables, d \in 1..MaxWidth, B \in 1..MaxBatch, seed \in Seeds,
       mode \in Modes :
        /\ my_size = 1
        /\ args = <<>>
        /\ loop = <<>>
        /\ ln_emb = [t \in 1..T |-> 1]
        /\ np_random = [r \in {0} |-> 0]
        /\ net = [r \in {0} |-> [arch_interaction_op |-> mode.op,
                                 arch_interaction_itself |-> mode.itself]]
        /\ batch0 = [lS_o |-> <<>>, lS_i |-> <<>>, dense_x |-> <<>>]
        /\ lS_o = [r \in {0} |-> <<>>]
        /\ lS_i = [r \in {0} |-> <<>>]
        /\ pc = [r \in {0} |-> "interact"]
        /\ error = [r \in {0} |-> "none"]
        /\ x = [r \in {0} |-> [b \in 1..B |-> [c \in 1..d |-> (seed + b + c) % 3]]]
        /\ ly = [r \in {0} |->
                    [t \in 1..T |-> [b \in 1..B |->
                        [c \in 1..d |-> ((seed + t + b + 2 * c) % 3) - 1]]]]
        /\ a2a = [r \in {0} |-> PyNone]
        /\ ag = [r \in {0} |-> PyNone]
        /\ z = [r \in {0} |-> <<>>]
        /\ log = [r \in {0} |-> <<>>]

Interact ==
    /\ pc[0] = "interact"
    /\ \E res \in {interact_features(net[0], x[0], ly[0])} :
           /\ pc' = [pc EXCEPT ![0] = Ended(res.err)]
           /\ error' = [error EXCEPT ![0] = res.err]
           /\ z' = [z EXCEPT ![0] = res.out]
           /\ log' = [log EXCEPT ![0] = <<"interact_features">>]
    /\ UNCHANGED <<loop, args, my_size, ln_emb, np_random, net, batch0, lS_o, lS_i, x, ly, a2a, ag>>

NextInteract == Interact

SpecInteract == InitInteract /\ [][NextInteract]_vars

(***************************************************************************)
(* C10: for T embedding tables and dense width d, interact_features        *)
(* returns rows of width d + T(T+1)/2 in dot mode without self-interaction *)
(* (the T+1 feature vectors, dense one included, are paired), of width     *)
(* d + (T+1)(T+2)/2 in dot mode with self-interaction, and of width        *)
(* (T+1)*d in cat mode; T = 3, d = 4 gives 10, 14 and 16.                  *)
(***************************************************************************)
InteractDone == pc[0] = "done" /\ log[0] = <<"interact_features">>

InteractT == Len(ly[0])

InteractD == Len(x[0][1])

RowsHaveWidth(w) ==
    /\ Len(z[0]) = Len(x[0])
    /\ \A b \in 1..Len(z[0]) : Len(z[0][b]) = w

Feature(b, i) == IF i = 0 THEN x[0][b] ELSE ly[0][i][b]

\* 1-based position of the pair (i, j) in the row-major scan
ScanPosition(i, j, itself) == IF itself THEN (i * (i + 1)) \div 2 + j + 1 ELSE (i * (i - 1)) \div 2 + j + 1

ScanLength(T, itself) == IF itself THEN ((T + 1) * (T + 2)) \div 2 ELSE (T * (T + 1)) \div 2

C11_GramRowMajor ==
    (InteractDone /\ net[0].arch_interaction_op = "dot") =>
        LET T == InteractT
            d == InteractD
            itself == net[0].arch_interaction_itself
        IN  \A b \in 1..Len(x[0]) :
                /\ Len(z[0][b]) = d + ScanLength(T, itself)
                /\ \A c \in 1..d : z[0][b][c] = x[0][b][c]
                /\ \A i \in 0..T : \A j \in 0..(IF itself THEN i ELSE i - 1) :
                       z[0][b][d + ScanPosition(i, j, itself)] = Dot(Feature(b, i), Feature(b, j))

\* three tables, self-interaction excluded: the last of the six entries is
\* the product of tables 3 and 2, and it differs from the first entry
C11_Witness ==
    /\ InteractDone /\ InteractT = 3 /\ InteractD = 2
    /\ net[0].arch_interaction_op = "dot" /\ ~net[0].arch_interaction_itself
    /\ z[0][1][InteractD + 6] = Dot(Feature(1, 3), Feature(1, 2))
    /\ z[0][1][InteractD + 6] # z[0][1][InteractD + 1]

MaxCalls == 3

\* the modes of the models built directly: those of the script and an
\* interaction op the class does not know
SessionModes == Modes \cup {[op |-> "sum", itself |-> FALSE, loss_threshold |-> 0]}

\* the bit widths quantize_embedding is called with
QuantizeBits == {4, 8, 16}

\* the batch sizes of the forward calls
SessionBatchSizes == {MaxBatch - 1, MaxBatch}

\* lines 542-545 of apply_emb: the table list a lookup reads
tables_read(self, emb_l) == IF emb_l.none THEN "emb_l_q" ELSE "emb_l"

InitSession ==
    \E T \in 0..MaxTables, nd \in 1..MaxDevices, mode \in SessionModes, sync \in BOOLEAN :
        LET ln == [t \in 1..T |-> MaxRows]
            ln_bot == <<m_den, m_spa>>
            ln_top == <<num_int(T, m_spa, mode.op, mode.itself, 0), 1>>
        IN
        \E built \in {DLRM_Net_init(m_spa, ln, ln_bot, ln_top, mode.op, mode.itself,
                                    -1, Len(ln_top) - 2, sync, mode.loss_threshold,
                                    nd, 0, 1, numpy_rand_seed % 16)} :
            /\ my_size = 1
            /\ args = <<>>
            /\ loop = <<>>
            /\ ln_emb = ln
            /\ net = [r \in {0} |-> built.self]
            /\ np_random = [r \in {0} |-> built.state]
            /\ batch0 = [lS_o |-> <<>>, lS_i |-> <<>>, dense_x |-> <<>>]
            /\ lS_o = [r \in {0} |-> <<>>]
            /\ lS_i = [r \in {0} |-> <<>>]
            /\ pc = [r \in {0} |-> "idle"]
            /\ error = [r \in {0} |-> "none"]
            /\ x = [r \in {0} |-> <<>>]
            /\ ly = [r \in {0} |-> <<>>]
            /\ a2a = [r \in {0} |-> PyNone]
            /\ ag = [r \in {0} |-> PyNone]
            /\ z = [r \in {0} |-> <<>>]
            /\ log = [r \in {0} |-> <<>>]

\* dlrm.quantize_embedding(bits)
SessionQuantize ==
    /\ pc[0] = "idle"
    /\ Len(log[0]) < MaxCalls
    /\ \E bits \in QuantizeBits :
       \E res \in {quantize_embedding(net[0], bits)} :
           /\ net' = [net EXCEPT ![0] = res.self]
           /\ error' = [error EXCEPT ![0] = res.err]
           /\ log' = [log EXCEPT ![0] = Append(@,
                         [op |-> "quantize_embedding", arg |-> bits, err |-> res.err,
                          replicated |-> FALSE, read |-> "nothing", steps |-> <<>>])]
    /\ UNCHANGED <<loop, args, my_size, ln_emb, np_random, batch0, lS_o, lS_i, pc, x, ly, a2a, ag, z>>

\* dlrm(dense_x, lS_o, lS_i) on a model with ndevices <= 1
SessionSequentialForward ==
    /\ pc[0] = "idle"
    /\ Len(log[0]) < MaxCalls
    /\ forward(net[0], my_size) = "sequential_forward"
    /\ \E B \in SessionBatchSizes :
       \E b \in {GenBatch(0, B, ln_emb, [kind |-> "none", k |-> 0])} :
       \E res \in {sequential_forward(net[0], b.dense_x, b.lS_o, b.lS_i)} :
           /\ batch0' = b
           /\ lS_o' = [lS_o EXCEPT ![0] = res.lS_o]
           /\ lS_i' = [lS_i EXCEPT ![0] = res.lS_i]
           /\ x' = [x EXCEPT ![0] = res.x]
           /\ ly' = [ly EXCEPT ![0] = res.ly]
           /\ z' = [z EXCEPT ![0] = res.z]
           /\ error' = [error EXCEPT ![0] = res.err]
           /\ log' = [log EXCEPT ![0] = Append(@,
                         [op |-> "sequential_forward", arg |-> B, err |-> res.err,
                          replicated |-> FALSE,
                          read |-> IF res.log = <<>> THEN "nothing"
                                   ELSE tables_read(net[0], net[0].emb_l),
                          steps |-> res.log])]
    /\ UNCHANGED <<loop, args, my_size, ln_emb, np_random, net, pc, a2a, ag>>

\* dlrm(dense_x, lS_o, lS_i) on a model with ndevices > 1
SessionParallelForward ==
    /\ pc[0] = "idle"
    /\ Len(log[0]) < MaxCalls
    /\ forward(net[0], my_size) = "parallel_forward"
    /\ \E B \in SessionBatchSizes :
       \E b \in {GenBatch(0, B, ln_emb, [kind |-> "none", k |-> 0])} :
       \E res \in {parallel_forward(net[0], b.dense_x, b.lS_o, b.lS_i)} :
           /\ batch0' = b
           /\ net' = [net EXCEPT ![0] = res.self]
           /\ lS_o' = [lS_o EXCEPT ![0] = res.lS_o]
           /\ lS_i' = [lS_i EXCEPT ![0] = res.lS_i]
           /\ z' = [z EXCEPT ![0] = res.z]
           /\ error' = [error EXCEPT ![0] = res.err]
           /\ log' = [log EXCEPT ![0] = Append(@,
                         [op |-> "parallel_forward", arg |-> B, err |-> res.err,
                          replicated |-> res.replicated,
                          read |-> IF res.err \in {"TypeError", "RuntimeError", "SystemExit"}
                                   THEN "nothing"
                                   ELSE tables_read(res.self, res.self.emb_l),
                          steps |-> <<>>])]
    /\ UNCHANGED <<loop, args, my_size, ln_emb, np_random, pc, x, ly, a2a, ag>>

NextSession == SessionQuantize \/ SessionSequentialForward \/ SessionParallelForward

SpecSession == InitSession /\ [][NextSession]_vars

(***************************************************************************)
(* C13: a call quantize_embedding(bits) with bits outside {4, 8} changes   *)
(* nothing: emb_l, emb_l_q, quantize_emb and quantize_bits have after the  *)
(* call the values they had before it, for any number of tables (zero      *)
(* included) and whatever quantize_embedding calls came before.            *)
(***************************************************************************)
IsCall(op) == Len(log'[0]) = Len(log[0]) + 1 /\ log'[0][Len(log'[0])].op = op

CallArg == log'[0][Len(log'[0])].arg

C13_UnsupportedBitsChangeNothing ==
    [][(IsCall("quantize_embedding") /\ CallArg \notin {4, 8}) =>
           /\ net'[0].emb_l = net[0].emb_l
           /\ net'[0].emb_l_q = net[0].emb_l_q
           /\ net'[0].quantize_emb = net[0].quantize_emb
           /\ net'[0].quantize_bits = net[0].quantize_bits]_vars

(***************************************************************************)
(* C14: once quantize_embedding(bits) has returned for bits in {4, 8},     *)
(* emb_l_q holds the packed encoding of every table (none missing), emb_l  *)
(* is None, quantize_emb is true and quantize_bits is bits; this stays so  *)
(* through every later call, and every later lookup reads emb_l_q, never   *)
(* emb_l.                                                                  *)
(***************************************************************************)
QuantizedAt(k) ==
    /\ k \in 1..Len(log[0])
    /\ log[0][k].op = "quantize_embedding"
    /\ log[0][k].arg \in {4, 8}
    /\ log[0][k].err = "none"

\* the weights table t was created with
OriginalWeight(t) == np_random_uniform(net[0].l_emb_seeds[t], ln_emb[t], m_spa)

Prepacked(bits, weight) == IF bits = 4 THEN embedding_bag_4bit_prepack(weight).packed ELSE embedding_bag_byte_prepack(weight).packed

C14_QuantizedStateIsStable ==
    \A k \in 1..Len(log[0]) :
        QuantizedAt(k) =>
            /\ net[0].emb_l = PyNone
            /\ net[0].quantize_emb
            /\ net[0].quantize_bits = log[0][k].arg
            /\ Len(net[0].emb_l_q) = Len(ln_emb)
            /\ \A t \in 1..Len(ln_emb) :
                   /\ ~net[0].emb_l_q[t].none
                   /\ net[0].emb_l_q[t].v = Prepacked(log[0][k].arg, OriginalWeight(t))
            /\ \A j \in (k + 1)..Len(log[0]) : log[0][j].read # "emb_l"

\* one table packed in 8 bits, then a forward call whose lookup read the
\* packed table and returned
C14_Witness ==
    /\ Len(ln_emb) = 1
    /\ Len(log[0]) = 2
    /\ QuantizedAt(1) /\ log[0][1].arg = 8
    /\ log[0][2].op = "sequential_forward"
    /\ log[0][2].read = "emb_l_q"
    /\ log[0][2].err = "none"

(***************************************************************************)
(* Fourth specification: the quantization codec on one table row.  A       *)
(* one-table model holds the row; as in lines 1442-1443 of the main        *)
(* script the table is quantized unless the width is 32 bits, and the row  *)
(* is then read back the way a lookup decodes it.                          *)
(***************************************************************************)
MaxValue == 4

\* the column counts of the row
CodecWidths == {2, 4}

\* the bit widths the main script accepts for the tables (line 1429)
CodecBits == {4, 8, 32}

Levels(bits) == IF bits = 4 THEN 15 ELSE IF bits = 8 THEN 255 ELSE 1

\* row r of table t as a lookup sees it, times Levels(quantize_bits)
read_row(self, t, r) ==
    IF ~self.emb_l.none THEN self.emb_l.v[t].weight[r]
    ELSE IF self.quantize_bits = 4 THEN Dequantize4bitRow(self.emb_l_q[t].v[r])
    ELSE DequantizeByteRow(self.emb_l_q[t].v[r])

InitCodec ==
    \E w \in CodecWidths, bits \in CodecBits :
    \E v \in [1..w -> (-MaxValue)..MaxValue] :
        /\ my_size = 1
        /\ args = <<>>
        /\ loop = <<>>
        /\ ln_emb = <<1>>
        /\ np_random = [r \in {0} |-> 0]
        /\ net = [r \in {0} |-> [emb_l |-> PyObj(<<[name |-> 0, weight |-> <<v>>]>>),
                                 quantize_emb |-> FALSE,
                                 emb_l_q |-> <<>>,
                                 quantize_bits |-> 32]]
        /\ batch0 = [lS_o |-> <<>>, lS_i |-> <<>>, dense_x |-> <<>>]
        /\ lS_o = [r \in {0} |-> <<>>]
        /\ lS_i = [r \in {0} |-> <<>>]
        /\ pc = [r \in {0} |-> "codec"]
        /\ error = [r \in {0} |-> "none"]
        /\ x = [r \in {0} |-> v]
        /\ ly = [r \in {0} |-> <<>>]
        /\ a2a = [r \in {0} |-> PyNone]
        /\ ag = [r \in {0} |-> PyNone]
        /\ z = [r \in {0} |-> <<>>]
        /\ log = [r \in {0} |-> <<bits>>]

QuantizeAndReadBack ==
    /\ pc[0] = "codec"
    /\ \E res \in {IF log[0][1] # 32 THEN quantize_embedding(net[0], log[0][1])
                   ELSE [err |-> "none", self |-> net[0]]} :
           /\ net' = [net EXCEPT ![0] = res.self]
           /\ error' = [error EXCEPT ![0] = res.err]
           /\ pc' = [pc EXCEPT ![0] = Ended(res.err)]
           /\ z' = [z EXCEPT ![0] = IF res.err = "none" THEN read_row(res.self, 1, 1) ELSE <<>>]
    /\ UNCHANGED <<loop, args, my_size, ln_emb, np_random, batch0, lS_o, lS_i, x, ly, a2a, ag, log>>

NextCodec == QuantizeAndReadBack

SpecCodec == InitCodec /\ [][NextCodec]_vars

(***************************************************************************)
(* C15: for every row v and bits in {4, 8}, every component of the row     *)
(* decoded from the packed encoding differs from v's by at most half the   *)
(* row's scale, scale = (max v - min v) / (2^bits - 1) (1 for a constant   *)
(* row); a full-precision table is read back with zero error.             *)
(***************************************************************************)
Abs(a) == IF a < 0 THEN -a ELSE a

CodecDone == pc[0] = "done" /\ Len(log[0]) = 1 /\ log[0][1] \in CodecBits

UnsupportedOp == net[0].arch_interaction_op \notin {"dot", "cat"}

IsForwardCall(k) == log[0][k].op \in {"sequential_forward", "parallel_forward"}

C16_UnsupportedOpRejectedBeforeWork ==
    \A k \in 1..Len(log[0]) :
        (UnsupportedOp /\ IsForwardCall(k)) =>
            /\ log[0][k].err = "SystemExit"
            /\ log[0][k].steps = <<>>

(***************************************************************************)
(* Fifth specification: the main script on one process, from the parsed    *)
(* command line to the first batch.  qr_flag and md_flag are off, the data *)
(* is generated (m_den = ln_bot[0]), the model runs on one device.         *)
(***************************************************************************)
\* argparse: --arch-interaction-op has choices ['dot', 'cat']
parse_args(a) == IF a.arch_interaction_op \in {"dot", "cat"} THEN "none" ELSE "SystemExit"

\* the device count without "ngpus = 1": every visible GPU is used
main_ndevices_all_gpus(a, size) ==
    IF a.use_gpu /\ a.cuda_device_count > 0
    THEN Min(a.cuda_device_count, Min(a.mini_batch_size, Len(a.arch_embedding_size)))
    ELSE -1

\* lines 1182-1200 and 1370: use_gpu, ngpus (torch.cuda.device_count(), then
\* reset to 1 on both GPU paths) and ndevices = min(ngpus, mini_batch_size,
\* num_fea - 1) if use_gpu else -1, in a job of size ranks
main_ndevices(a, size) ==
    LET use_gpu == a.use_gpu /\ a.cuda_device_count > 0
        \* line 1191 in a distributed job (after the exit of lines 1188-1190
        \* when the node has fewer GPUs than local ranks), line 1196 otherwise
        ngpus == IF size > 1 THEN 1 ELSE 1
    IN  IF use_gpu
        THEN Min(ngpus, Min(a.mini_batch_size, Len(a.arch_embedding_size)))
        ELSE -1

\* lines 1244-1307: num_int, ln_top and the sanity checks on the dimensions
main_dimensions(a) ==
    LET ln_bot == a.arch_mlp_bot
        m_den_out == ln_bot[Len(ln_bot)]
        n == num_int(Len(a.arch_embedding_size), m_den_out, a.arch_interaction_op, a.arch_interaction_itself, 0)
        ln_top == <<n>> \o a.arch_mlp_top
    IN  IF a.arch_interaction_op \notin {"dot", "cat"}
        THEN [err |-> "SystemExit", ln_top |-> <<>>]
        ELSE IF m_den # ln_bot[1]
        THEN [err |-> "SystemExit", ln_top |-> ln_top]
        ELSE IF m_spa # m_den_out
        THEN [err |-> "SystemExit", ln_top |-> ln_top]
        ELSE IF n # ln_top[1]
        THEN [err |-> "SystemExit", ln_top |-> ln_top]
        ELSE [err |-> "none", ln_top |-> ln_top]

\* torch.quantization.quantize_dynamic on one weight tensor: symmetric
\* per-tensor codes in -128..127 for qint8, scale = max|w| / 127.5; float16
\* holds the model's weights exactly
QuantizeLinearWeight(weight, bits) ==
    LET M == RowMax([k \in 1..Len(Flatten(weight)) |-> Abs(Flatten(weight)[k])])
        code(w) == Min(127, RoundQuot(w * 255, 2 * M))
    IN  IF bits # 8 \/ M = 0 THEN weight
        ELSE [r \in 1..Len(weight) |-> [c \in 1..Len(weight[r]) |->
                 RoundQuot(code(weight[r][c]) * 2 * M, 255)]]

quantize_dynamic(self, bits) ==
    [self EXCEPT
        !.bot_l = [k \in 1..Len(@) |-> [@[k] EXCEPT !.weight = QuantizeLinearWeight(@, bits)]],
        !.top_l = [k \in 1..Len(@) |-> [@[k] EXCEPT !.weight = QuantizeLinearWeight(@, bits)]]]

\* lines 1413-1444: post-training quantization of an inference-only run
main_quantize(a, self) ==
    IF ~a.inference_only
    THEN [err |-> "none", self |-> self]
    ELSE IF a.quantize_mlp_with_bit \notin {8, 16, 32}
    THEN [err |-> "AssertionError", self |-> self]
    ELSE IF a.quantize_emb_with_bit \notin {4, 8, 32}
    THEN [err |-> "AssertionError", self |-> self]
    ELSE With(IF a.quantize_mlp_with_bit # 32 THEN quantize_dynamic(self, a.quantize_mlp_with_bit)
              ELSE self, LAMBDA q :
             IF a.quantize_emb_with_bit # 32
             THEN quantize_embedding(q, a.quantize_emb_with_bit)
             ELSE [err |-> "none", self |-> q])

\* the first widths of --arch-mlp-top tried
TopWidths == {4, 8}

MainArgs ==
    [arch_interaction_op : {"dot", "cat", "sum"},
     arch_interaction_itself : BOOLEAN,
     arch_mlp_bot : {<<m_den, m_spa>>, <<m_den, m_spa + 1>>},
     arch_mlp_top : {<<w, 1>> : w \in TopWidths},
     arch_embedding_size : {[t \in 1..T |-> MaxRows] : T \in 1..MaxTables},
     quantize_mlp_with_bit : {4, 8, 16, 32},
     quantize_emb_with_bit : {4, 8, 16, 32},
     inference_only : BOOLEAN,
     use_gpu : BOOLEAN,
     cuda_device_count : {0, MaxDevices},
     mini_batch_size : {MaxBatch}]

InitMain ==
    \E a \in MainArgs :
        /\ args = a
        /\ loop = <<>>
        /\ my_size = 1
        /\ ln_emb = a.arch_embedding_size
        /\ np_random = [r \in {0} |-> numpy_rand_seed % 16]
        /\ net = [r \in {0} |-> PyNone]
        /\ batch0 = [lS_o |-> <<>>, lS_i |-> <<>>, dense_x |-> <<>>]
        /\ lS_o = [r \in {0} |-> <<>>]
        /\ lS_i = [r \in {0} |-> <<>>]
        /\ pc = [r \in {0} |-> "parse_args"]
        /\ error = [r \in {0} |-> "none"]
        /\ x = [r \in {0} |-> <<>>]
        /\ ly = [r \in {0} |-> <<>>]
        /\ a2a = [r \in {0} |-> PyNone]
        /\ ag = [r \in {0} |-> PyNone]
        /\ z = [r \in {0} |-> <<>>]
        /\ log = [r \in {0} |-> <<>>]

Abort(er) ==
    /\ pc' = [pc EXCEPT ![0] = "aborted"]
    /\ error' = [error EXCEPT ![0] = er]

ParseArgs ==
    /\ pc[0] = "parse_args"
    /\ IF parse_args(args) # "none"
       THEN Abort(parse_args(args))
       ELSE pc' = [pc EXCEPT ![0] = "build"] /\ UNCHANGED error
    /\ UNCHANGED <<loop, args, my_size, ln_emb, np_random, net, batch0, lS_o, lS_i, x, ly, a2a, ag, z, log>>

\* lines 1244-1403: the dimensions are derived and checked, then
\* dlrm = DLRM_Net(...)
BuildModel ==
    /\ pc[0] = "build"
    /\ \E dims \in {main_dimensions(args)} :
          IF dims.err # "none"
          THEN Abort(dims.err) /\ UNCHANGED <<net, np_random>>
          ELSE \E built \in {DLRM_Net_init(m_spa, args.arch_embedding_size, args.arch_mlp_bot,
                                           dims.ln_top, args.arch_interaction_op,
                                           args.arch_interaction_itself, -1,
                                           Len(dims.ln_top) - 2, TRUE, 0,
                                           main_ndevices(args, my_size), 0, 1,
                                           np_random[0])} :
                   /\ net' = [net EXCEPT ![0] = built.self]
                   /\ np_random' = [np_random EXCEPT ![0] = built.state]
                   /\ pc' = [pc EXCEPT ![0] = "quantize"]
                   /\ UNCHANGED error
    /\ UNCHANGED <<loop, args, my_size, ln_emb, batch0, lS_o, lS_i, x, ly, a2a, ag, z, log>>

QuantizeModel ==
    /\ pc[0] = "quantize"
    /\ \E res \in {main_quantize(args, net[0])} :
           /\ net' = [net EXCEPT ![0] = res.self]
           /\ IF res.err # "none"
              THEN Abort(res.err)
              ELSE pc' = [pc EXCEPT ![0] = "run"] /\ UNCHANGED error
    /\ UNCHANGED <<loop, args, my_size, ln_emb, np_random, batch0, lS_o, lS_i, x, ly, a2a, ag, z, log>>

\* line 1683, Z = dlrm_wrap(X, lS_o, lS_i, use_gpu, device): dlrm(...) is
\* DLRM_Net.forward, which picks the strategy; called isolates what the
\* strategies return
dlrm_wrap(self, dense_x, lS_o_arg, lS_i_arg, size) ==
    IF forward(self, size) = "parallel_forward"
    THEN With(parallel_forward(self, dense_x, lS_o_arg, lS_i_arg), LAMBDA res :
             [called |-> "parallel_forward", err |-> res.err, z |-> res.z, x |-> <<>>,
              ly |-> <<>>, lS_o |-> res.lS_o, lS_i |-> res.lS_i, log |-> <<>>,
              self |-> res.self])
    ELSE With(sequential_forward(self, dense_x, lS_o_arg, lS_i_arg), LAMBDA res :
             [called |-> "sequential_forward", err |-> res.err, z |-> res.z, x |-> res.x,
              ly |-> res.ly, lS_o |-> res.lS_o, lS_i |-> res.lS_i, log |-> res.log,
              self |-> self])

\* the first batch of the training or inference loop goes through forward
FirstBatch ==
    /\ pc[0] = "run"
    /\ \E b \in {GenBatch(0, args.mini_batch_size, ln_emb, [kind |-> "none", k |-> 0])} :
       \E res \in {dlrm_wrap(net[0], b.dense_x, b.lS_o, b.lS_i, my_size)} :
           /\ batch0' = b
           /\ net' = [net EXCEPT ![0] = res.self]
           /\ lS_o' = [lS_o EXCEPT ![0] = res.lS_o]
           /\ lS_i' = [lS_i EXCEPT ![0] = res.lS_i]
           /\ x' = [x EXCEPT ![0] = res.x]
           /\ ly' = [ly EXCEPT ![0] = res.ly]
           /\ z' = [z EXCEPT ![0] = res.z]
           /\ error' = [error EXCEPT ![0] = res.err]
           /\ pc' = [pc EXCEPT ![0] = Ended(res.err)]
           /\ log' = [log EXCEPT ![0] = <<"batch", res.called>> \o res.log]
    /\ UNCHANGED <<loop, args, my_size, ln_emb, np_random, a2a, ag>>

NextMain == ParseArgs \/ BuildModel \/ QuantizeModel \/ FirstBatch

SpecMain == InitMain /\ [][NextMain]_vars

(***************************************************************************)
(* C17: an embedding bit width outside {4, 8, 32} or an encoder-weight bit *)
(* width outside {8, 16, 32} is rejected as a fatal configuration error    *)
(* before any batch is processed, in training runs and in inference-only   *)
(* runs alike.                                                             *)
(***************************************************************************)
UnsupportedBits ==
    \/ args.quantize_emb_with_bit \notin {4, 8, 32}
    \/ args.quantize_mlp_with_bit \notin {8, 16, 32}

BatchProcessed == log[0] # <<>> /\ log[0][1] = "batch"

C17_UnsupportedBitsRejectedBeforeBatch == UnsupportedBits => ~BatchProcessed

(***************************************************************************)
(* C18: when the first width declared for the top encoder differs from the *)
(* interaction width the script derives, the build aborts with a fatal     *)
(* configuration error: no model is constructed.                           *)
(***************************************************************************)
DerivedWidth == num_int(Len(args.arch_embedding_size), args.arch_mlp_bot[Len(args.arch_mlp_bot)], args.arch_interaction_op, args.arch_interaction_itself, 0)

ModelBuilt == net[0] # PyNone

C18_TopWidthMismatchAbortsBuild == (args.arch_mlp_top[1] # DerivedWidth) => ~ModelBuilt

(***************************************************************************)
(* C19: over any sequence of parallel_forward calls the encoders are       *)
(* replicated at a call exactly when it is the first such call, its batch  *)
(* size differs from that of the previous one, or sync_dense_params is     *)
(* set; after every call parallel_model_batch_size is that call's batch    *)
(* size and parallel_model_is_not_prepared is false.                       *)
(***************************************************************************)
IsParallelCall(k) == k \in 1..Len(log[0]) /\ log[0][k].op = "parallel_forward"

\* the parallel_forward calls before call k
EarlierParallelCalls(k) == {j \in 1..(k - 1) : IsParallelCall(j)}

PreviousParallelCall(k) == CHOOSE j \in EarlierParallelCalls(k) : \A i \in EarlierParallelCalls(k) : i <= j

IsLastParallelCall(k) == IsParallelCall(k) /\ \A j \in (k + 1)..Len(log[0]) : ~IsParallelCall(j)

ReplicationFollowsBatchSizeAt(k) ==
    /\ log[0][k].replicated <=>
           \/ EarlierParallelCalls(k) = {}
           \/ log[0][PreviousParallelCall(k)].arg # log[0][k].arg
           \/ net[0].sync_dense_params
    /\ IsLastParallelCall(k) =>
           /\ net[0].parallel_model_batch_size = log[0][k].arg
           /\ ~net[0].parallel_model_is_not_prepared

C19_ReplicationFollowsBatchSize ==
    \A k \in 1..Len(log[0]) : IsParallelCall(k) => ReplicationFollowsBatchSizeAt(k)

\* the same for the calls of a model that still has its emb_l
ReplicationFollowsBatchSizeWithTables ==
    \A k \in 1..Len(log[0]) :
        (IsParallelCall(k) /\ log[0][k].err # "TypeError") => ReplicationFollowsBatchSizeAt(k)

\* two calls of the same batch size without sync_dense_params: no second
\* replication
ReplicationSkipped ==
    /\ Len(log[0]) = 2 /\ IsParallelCall(1) /\ IsParallelCall(2)
    /\ log[0][1].arg = log[0][2].arg
    /\ log[0][1].replicated /\ ~log[0][2].replicated

(***************************************************************************)
(* C20: with a loss_threshold t, 0 < t <= 1/2, every score s a forward     *)
(* call returns satisfies t <= s <= 1 - t, under every strategy that       *)
(* returns (in a distributed call: every row of the gathered vector on     *)
(* every rank).  Scores and thresholds are in thousandths.                 *)
(***************************************************************************)
Returned(r) == r \in Ranks /\ pc[r] = "done" /\ z[r] # <<>>

ScoresWithin(r, lo, hi) == \A b \in 1..Len(z[r]) : \A c \in 1..Len(z[r][b]) : lo <= z[r][b][c] /\ z[r][b][c] <= hi

C20_ScoresClamped ==
    \A r \in Ranks :
        (Returned(r) /\ 0 < net[r].loss_threshold /\ net[r].loss_threshold <= 500) =>
            ScoresWithin(r, net[r].loss_threshold, 1000 - net[r].loss_threshold)

\* the bound for every nonzero threshold
C20_ScoresClampedForAnyThreshold ==
    \A r \in Ranks :
        (Returned(r) /\ net[r].loss_threshold # 0) =>
            ScoresWithin(r, net[r].loss_threshold, 1000 - net[r].loss_threshold)

\* a distributed call returned on both ranks with a score raised to the
\* threshold 300
C20_Witness ==
    /\ my_size = 2
    /\ \A r \in Ranks : Returned(r) /\ net[r].loss_threshold = 300
    /\ \E b \in 1..Len(z[1]) : z[1][b][1] = 300

(***************************************************************************)
(* C21: when all tables share the row count and the width (full            *)
(* precision) and every table's offsets are non-decreasing, the merged     *)
(* lookup of infer_gpu gives for every table exactly the result of the     *)
(* per-table sum-pooled lookup on that table alone.                        *)
(***************************************************************************)
\* lines 560-598, the per-table branch of apply_emb: V = E(indices, offsets)
\* with E = emb_l[k], an EmbeddingBag in mode 'sum'
per_table_lookup(weight, sparse_index_group_batch, sparse_offset_group_batch) ==
    EmbeddingBag(weight, Len(weight[1]), sparse_index_group_batch, sparse_offset_group_batch)

OffsetsNonDecreasing ==
    \A t \in 1..Len(batch0.lS_o) : \A i \in 1..(Len(batch0.lS_o[t]) - 1) :
        batch0.lS_o[t][i] <= batch0.lS_o[t][i + 1]

PerTableReference(t) ==
    per_table_lookup(TableWeight(t), batch0.lS_i[t + 1], batch0.lS_o[t + 1])

MergedEqualsPerTable(r) ==
    IF \A j \in 1..Len(LocalTables(r)) : PerTableReference(LocalTables(r)[j]).err = "none"
    THEN /\ LookupReturned(r)
         /\ Len(LookupResult(r)) = Len(LocalTables(r))
         /\ \A j \in 1..Len(LocalTables(r)) :
                LookupResult(r)[j] = PerTableReference(LocalTables(r)[j]).out
    ELSE ~LookupReturned(r)

C21_MergedEqualsPerTable ==
    \A r \in Ranks :
        (UniformRows /\ BatchListsMatch /\ OffsetsNonDecreasing /\ LookupCalled(r)
            /\ Len(LocalTables(r)) > 0 /\ net[r].quantize_bits = 32) =>
            MergedEqualsPerTable(r)

\* the same, for batches whose indices are all rows of their table
MergedEqualsPerTableInRange ==
    \A r \in Ranks :
        (UniformRows /\ BatchIsValid /\ OffsetsNonDecreasing /\ LookupCalled(r)
            /\ Len(LocalTables(r)) > 0 /\ net[r].quantize_bits = 32) =>
            MergedEqualsPerTable(r)

\* a merged lookup over several tables with non-empty segments has returned
MergedLookupOverTables ==
    /\ UniformRows /\ BatchIsValid /\ NumTables >= 2 /\ BatchSize >= 2
    /\ my_size = 1 /\ LookupCalled(0) /\ LookupReturned(0)
    /\ \E i \in 1..BatchSize : LookupResult(0)[2][i] # Zeros(m_spa)

(***************************************************************************)
(* The distributed calls, every process running: a rank whose next step of *)
(* the forward call can be taken (a wait whose collective is complete      *)
(* included) takes it.  A step of rank r is a step that moves pc[r], and   *)
(* it can be taken exactly when RankCanStep(r) holds, so the fairness      *)
(* condition is stated on pc.                                              *)
(***************************************************************************)
RankStep(r) ==
    /\ r \in Ranks
    /\ (DistLookup(r) \/ DistBot(r) \/ DistWait(r) \/ DistGather(r))

\* the guards of the four steps
RankCanStep(r) ==
    /\ r \in Ranks
    /\ \/ pc[r] = "start" /\ forward(net[r], my_size) = "distributed_forward"
       \/ pc[r] = "bot"
       \/ pc[r] = "wait" /\ a2a_req_wait(r)
       \/ pc[r] = "gather" /\ all_gather_wait(r)

RankMoves(r) ==
    /\ RankCanStep(r)
    /\ \E p \in {"bot", "wait", "gather", "done", "aborted"} : pc' = [pc EXCEPT ![r] = p]

\* the distributed calls of Init
InitDistributed == Init /\ my_size > 1

NextDistributed == \E r \in 0..(MaxRanks - 1) : RankStep(r)

SpecDistributed ==
    /\ InitDistributed
    /\ [][NextDistributed]_vars
    /\ \A r \in 0..(MaxRanks - 1) : WF_pc(RankMoves(r))

(***************************************************************************)
(* C22: in a distributed forward call in which every rank passes its       *)
(* validation checks, every rank issues one all-to-all and then one        *)
(* all-gather: the all-to-all after its lookup, the bottom encoder between *)
(* issuing and waiting on it, the interaction after the wait, the          *)
(* all-gather after top encoder and clamp; and every rank's call           *)
(* eventually returns.                                                     *)
(***************************************************************************)
\* the checks of lines 829-839 and 852 pass on rank r
PassesValidation(r) ==
    LET sl == get_my_slice(NumTables, r, my_size)
        n == sl.stop - sl.start
    IN  /\ BatchSize >= my_size
        /\ BatchSize % my_size = 0
        /\ Len(Slice(batch0.lS_o, sl.start, sl.stop)) = n
        /\ Len(Slice(batch0.lS_i, sl.start, sl.stop)) = n

DistributedOrder ==
    <<"slice", "apply_emb", "alltoall", "bot_l", "wait", "interact_features",
      "top_l", "clamp", "all_gather", "return">>

IsPrefix(s, t) == Len(s) <= Len(t) /\ \A k \in 1..Len(s) : s[k] = t[k]

AllRanksReturnedInOrder ==
    \A r \in Ranks : pc[r] = "done" /\ log[r] = DistributedOrder

C22_DistributedCallReturnsInOrder ==
    (Strategy = "distributed_forward" /\ \A r \in Ranks : PassesValidation(r))
        ~> AllRanksReturnedInOrder

\* the same, for models whose tables share the row count and give every rank
\* a table, and batches whose indices are all rows of their table
DistributedCallReturnsInOrderWhenLookupSucceeds ==
    (Strategy = "distributed_forward" /\ UniformRows /\ BatchIsValid
        /\ NumTables >= my_size /\ \A r \in Ranks : PassesValidation(r))
        ~> AllRanksReturnedInOrder

\* the steps of a rank are never taken in another order
DistributedStepsInOrder ==
    \A r \in Ranks : Strategy = "distributed_forward" => IsPrefix(log[r], DistributedOrder)

(***************************************************************************)
(* C23: for every storage encoding selected by quantize_bits (full         *)
(* precision, 8-bit, 4-bit) the lookup returns exactly T per-table         *)
(* results, each with batch_size rows and the table's embedding width as   *)
(* columns, and the results of two different tables are taken from         *)
(* disjoint parts of the merged reduction output.                          *)
(***************************************************************************)
\* the cells <<row, column>> (0-based) of the merged reduction output that
\* infer_gpu returns as table i's result: line 237 (8-bit, result[:, i:i+32]
\* of an output of B rows and T * dim columns) and line 257 (rows
\* prefix_sum_offsets[i] .. prefix_sum_offsets[i+1] of an output of T * B + 1
\* rows and dim columns)
result_cells(quantize_bits, i, T, B, dim) ==
    IF quantize_bits = 8
    THEN {<<b, c>> : b \in 0..(B - 1), c \in i..(Min(i + 32, T * dim) - 1)}
    ELSE {<<b, c>> : b \in (i * B)..((i + 1) * B - 1), c \in 0..(dim - 1)}

LastCall == log[0][Len(log[0])]

\* the last call was a sequential forward call that reached its lookup
LookupReached ==
    /\ log[0] # <<>>
    /\ LastCall.op = "sequential_forward"
    /\ LastCall.steps # <<>>
    /\ NumTables >= 1

LookupShape ==
    /\ \E k \in 1..Len(LastCall.steps) : LastCall.steps[k] = "apply_emb"
    /\ Len(ly[0]) = NumTables
    /\ \A t \in 1..NumTables :
           /\ Len(ly[0][t]) = LastCall.arg
           /\ \A b \in 1..Len(ly[0][t]) : Len(ly[0][t][b]) = m_spa
    /\ \A i, j \in 0..(NumTables - 1) :
           i # j => result_cells(net[0].quantize_bits, i, NumTables, LastCall.arg, m_spa)
                        \cap result_cells(net[0].quantize_bits, j, NumTables, LastCall.arg, m_spa)
                    = {}

C23_LookupShapeForEveryEncoding == LookupReached => LookupShape

\* the same, for the full-precision encoding only
LookupShapeFullPrecision ==
    (LookupReached /\ net[0].quantize_bits = 32 /\ ~net[0].emb_l.none) => LookupShape

(***************************************************************************)
(* C24: after a successful quantize_embedding(bits in {4, 8}), a valid     *)
(* forward call completes and returns one score per batch row, under each  *)
(* strategy.                                                               *)
(***************************************************************************)
\* the last call was a forward call on a model quantized to 4 or 8 bits
ForwardOnQuantized ==
    /\ log[0] # <<>>
    /\ LastCall.op \in {"sequential_forward", "parallel_forward"}
    /\ net[0].quantize_emb
    /\ net[0].quantize_bits \in {4, 8}
    /\ NumTables >= 1

OneScorePerRow ==
    /\ LastCall.err = "none"
    /\ Len(z[0]) = LastCall.arg
    /\ \A b \in 1..Len(z[0]) : Len(z[0][b]) = 1

C24_QuantizedForwardReturns == ForwardOnQuantized => OneScorePerRow

\* a sequential forward call on a quantized model that returned its scores
QuantizedForwardReturned ==
    ForwardOnQuantized /\ LastCall.op = "sequential_forward" /\ OneScorePerRow

(***************************************************************************)
(* C25: in parallel_forward with ndevices = min(configured device count,   *)
(* batch size, table count), for every batch size >= 1 and table count     *)
(* >= 1 the dense batch and every table's lookup result are split into     *)
(* exactly ndevices non-empty contiguous row shards with identical         *)
(* boundaries, device k's interaction pairs each bottom-encoder row with   *)
(* the lookup rows of the same batch row, and gathering the per-device     *)
(* scores in device order restores the original row order.                 *)
(***************************************************************************)
\* line 895
ParallelDevices == Min(net[0].ndevices, Min(BatchSize, NumTables))

\* the shards of the dense batch (line 921) are ndevices non-empty runs of
\* rows that follow each other
DenseShards == scatter(batch0.dense_x, ParallelDevices)

ShardsCoverBatch ==
    /\ Len(DenseShards) = ParallelDevices
    /\ \A k \in 1..Len(DenseShards) : DenseShards[k] # <<>>
    /\ Flatten(DenseShards) = batch0.dense_x

ParallelCallMade ==
    /\ Strategy = "parallel_forward"
    /\ BatchIsValid /\ UniformRows
    /\ pc[0] # "start"

C25_ParallelShardsAligned ==
    ParallelCallMade =>
        /\ ShardsCoverBatch
        /\ pc[0] = "done"
        /\ Len(z[0]) = BatchSize

\* the split of the dense batch alone
DenseShardsCoverBatchOnAnyDevices == ParallelCallMade => ShardsCoverBatch

\* the same, for at most two devices
DenseShardsCoverBatchOnTwoDevices ==
    (ParallelCallMade /\ ParallelDevices <= 2) => ShardsCoverBatch

(***************************************************************************)
(* C26: a forward call leaves the caller's sparse batch unchanged: every   *)
(* index list and the offset array hold the same values after the call as  *)
(* before it (so a second call on the same batch object returns the same   *)
(* scores).                                                                *)
(***************************************************************************)
BatchUnchanged(r) == lS_o[r] = batch0.lS_o /\ lS_i[r] = batch0.lS_i

C26_ForwardLeavesBatchUnchanged == \A r \in Ranks : BatchUnchanged(r)

\* the same, for the processes that look up a single table
BatchUnchangedWithOneTable ==
    \A r \in Ranks : Len(LocalTables(r)) <= 1 => BatchUnchanged(r)

\* a second call on the batch object as the first call left it
SecondCallOnSameBatch ==
    sequential_forward(net[0], batch0.dense_x, lS_o[0], lS_i[0])

\* the second call returns the scores of the first
SecondCallReturnsSameScores ==
    (Strategy = "sequential_forward" /\ BatchIsValid /\ pc[0] = "done") =>
        /\ SecondCallOnSameBatch.err = "none"
        /\ SecondCallOnSameBatch.z = z[0]

(***************************************************************************)
(* Sixth specification: the epoch loop of the main script (lines           *)
(* 1627-1948), from the state lines 1538-1585 leave.  The batch body       *)
(* (forward, loss, optimizer step, periodic test) is a step that returns;  *)
(* mlperf logging is off.  The script is a running process: a step that    *)
(* can be taken is taken.                                                  *)
(***************************************************************************)
MaxEpochs == 2

MaxBatches == 3

\* lines 1538-1585: skip_upto_epoch and skip_upto_batch, 0 unless a
\* checkpoint is loaded for training
load_model(a) ==
    IF a.load_model.none \/ a.inference_only
    THEN [skip_upto_epoch |-> 0, skip_upto_batch |-> 0]
    ELSE [skip_upto_epoch |-> a.load_model.v.epoch, skip_upto_batch |-> a.load_model.v.iter]

\* --nepochs, --num-batches, --inference-only, and the checkpoint named by
\* --load-model, if any (its saved "epoch" and "iter")
TrainArgs ==
    [nepochs : 0..MaxEpochs,
     num_batches : 0..MaxBatches,
     inference_only : BOOLEAN,
     load_model : {PyNone} \cup {PyObj([epoch |-> e, iter |-> i]) :
                                    e \in 0..MaxEpochs, i \in 0..MaxBatches}]

InitTrain ==
    \E a \in TrainArgs, len_train_ld \in 1..MaxBatches :
        /\ args = a
        /\ loop = [k |-> 0, j |-> 0,
                   skip_upto_epoch |-> load_model(a).skip_upto_epoch,
                   skip_upto_batch |-> load_model(a).skip_upto_batch,
                   nbatches |-> IF a.num_batches > 0 THEN a.num_batches ELSE len_train_ld,
                   len_train_ld |-> len_train_ld,
                   total_iter |-> 0]
        /\ my_size = 1
        /\ ln_emb = <<>>
        /\ np_random = [r \in {0} |-> numpy_rand_seed % 16]
        /\ net = [r \in {0} |-> PyNone]
        /\ batch0 = [lS_o |-> <<>>, lS_i |-> <<>>, dense_x |-> <<>>]
        /\ lS_o = [r \in {0} |-> <<>>]
        /\ lS_i = [r \in {0} |-> <<>>]
        /\ pc = [r \in {0} |-> "while"]
        /\ error = [r \in {0} |-> "none"]
        /\ x = [r \in {0} |-> <<>>]
        /\ ly = [r \in {0} |-> <<>>]
        /\ a2a = [r \in {0} |-> PyNone]
        /\ ag = [r \in {0} |-> PyNone]
        /\ z = [r \in {0} |-> <<>>]
        /\ log = [r \in {0} |-> <<>>]

\* lines 1627-1629: the loop test and the skip of the epochs before the
\* checkpoint's; "continue" goes back to the test with nothing changed
EpochTest ==
    /\ pc[0] = "while"
    /\ IF loop.k < args.nepochs
       THEN IF loop.k < loop.skip_upto_epoch
            THEN UNCHANGED <<pc, loop>>
            ELSE /\ pc' = [pc EXCEPT ![0] = "for"]
                 /\ loop' = [loop EXCEPT !.j = 0]
       ELSE /\ pc' = [pc EXCEPT ![0] = "done"]
            /\ UNCHANGED loop
    /\ UNCHANGED <<args, my_size, ln_emb, np_random, net, batch0, lS_o, lS_i, error, x, ly, a2a, ag, z, log>>

\* lines 1638-1948: one pass of "for j, ... in enumerate(train_ld)"; the
\* loop's end and its break are followed by k += 1
BatchStep ==
    /\ pc[0] = "for"
    /\ IF loop.j >= loop.len_train_ld
       THEN /\ pc' = [pc EXCEPT ![0] = "while"]
            /\ loop' = [loop EXCEPT !.k = @ + 1]
       ELSE IF loop.j < loop.skip_upto_batch
       THEN /\ loop' = [loop EXCEPT !.j = @ + 1]
            /\ UNCHANGED pc
       ELSE IF loop.nbatches > 0 /\ loop.j >= loop.nbatches
       THEN /\ pc' = [pc EXCEPT ![0] = "while"]
            /\ loop' = [loop EXCEPT !.k = @ + 1]
       ELSE /\ loop' = [loop EXCEPT !.j = @ + 1, !.total_iter = @ + 1]
            /\ UNCHANGED pc
    /\ UNCHANGED <<args, my_size, ln_emb, np_random, net, batch0, lS_o, lS_i, error, x, ly, a2a, ag, z, log>>

NextTrain == EpochTest \/ BatchStep

SpecTrain == InitTrain /\ [][NextTrain]_vars /\ WF_vars(NextTrain)

(***************************************************************************)
(* C27: the epoch loop of the main script terminates after at most nepochs *)
(* epochs for every configuration, a training run resumed from a           *)
(* checkpoint whose saved epoch is greater than 0 included: the epoch      *)
(* counter k eventually reaches nepochs.                                   *)
(***************************************************************************)
LoopEnded == pc[0] = "done" /\ loop.k = args.nepochs

C27_EpochLoopTerminates == <>LoopEnded

\* the same, for the runs that skip no epoch
EpochLoopTerminatesWithoutSkip == (loop.skip_upto_epoch = 0) ~> LoopEnded

\* k never passes nepochs
EpochCounterBounded == loop.k <= args.nepochs

\* a run resumed inside its first epoch has ended
ResumedRunEnded ==
    /\ LoopEnded /\ args.nepochs = MaxEpochs
    /\ loop.skip_upto_batch > 0 /\ loop.total_iter > 0

(***************************************************************************)
(* C28: for interaction mode 'dot' (with and without self-interaction, no  *)
(* projection) and for mode 'cat', the top-encoder input width num_int the *)
(* main script derives from the table count and the bottom-encoder output  *)
(* width equals the width of the rows interact_features produces, for      *)
(* every table count T >= 1.                                               *)
(***************************************************************************)
\* what lines 1244-1259 derive for the model whose interaction ran
DerivedInteractionWidth ==
    num_int(InteractT, InteractD, net[0].arch_interaction_op, net[0].arch_interaction_itself, 0)

C28_DerivedWidthIsInteractionWidth ==
    InteractT >= 1 =>
        /\ pc[0] # "aborted"
        /\ InteractDone => RowsHaveWidth(DerivedInteractionWidth)

\* three tables, dense width 2, dot mode with self-interaction: 2 + 10 columns
C28_Witness ==
    /\ InteractDone /\ InteractT = 3 /\ InteractD = 2
    /\ net[0].arch_interaction_op = "dot" /\ net[0].arch_interaction_itself
    /\ DerivedInteractionWidth = 12
    /\ Len(z[0][1]) = 12

\* inside a forward call the top encoder, built for num_int columns, takes
\* the rows of the interaction step
TopEncoderTakesInteraction ==
    \A r \in Ranks :
        (Strategy # "parallel_forward" /\ InLog(r, "interact_features")) => InLog(r, "top_l")

\* a distributed call whose interaction ran on every table
DistributedInteractionRan ==
    /\ my_size > 1 /\ NumTables = MaxTables
    /\ \A r \in Ranks : InLog(r, "interact_features") /\ InLog(r, "top_l")

(***************************************************************************)
(* C29: when the model is built and run through the main script, the       *)
(* device count passed to the model never exceeds 1 (ngpus is reset to 1   *)
(* on every GPU path and is -1 on CPU), so forward never dispatches to     *)
(* parallel_forward: every call goes to distributed_forward when the rank  *)
(* count is greater than 1 and to sequential_forward otherwise.            *)
(***************************************************************************)
\* the strategy forward picks in a job of size ranks for the device count
\* the script derives there
MainDispatch(size) == forward([ndevices |-> main_ndevices(args, size)], size)

C29_MainNeverRunsParallel ==
    /\ \A size \in 1..MaxRanks :
           /\ main_ndevices(args, size) <= 1
           /\ MainDispatch(size) = IF size > 1 THEN "distributed_forward"
                                   ELSE "sequential_forward"
    /\ ModelBuilt => net[0].ndevices <= 1
    /\ BatchProcessed => log[0][2] = "sequential_forward"

\* a GPU run on a machine with several GPUs, several tables and a batch of
\* several rows has processed its first batch
C29_Witness ==
    /\ args.use_gpu /\ args.cuda_device_count = MaxDevices /\ MaxDevices > 1
    /\ Len(args.arch_embedding_size) > 1 /\ args.mini_batch_size > 1
    /\ BatchProcessed /\ pc[0] = "done"
    /\ net[0].ndevices = 1
    /\ log[0][2] = "sequential_forward"

(***************************************************************************)
(* C30: create_emb leaves the global numpy random state exactly as it      *)
(* found it, and the initial weights of table i depend only on its seed    *)
(* l_emb_seeds[i] and its shape: two builds from the same starting random  *)
(* state, one creating all tables and one creating only a rank's local     *)
(* subset, give every table they both create the same initial weights and  *)
(* draw the same encoder weights afterwards.                               *)
(***************************************************************************)
\* the build of the same model in a single process, which creates every table
FullBuild ==
    DLRM_Net_init(m_spa, ln_emb, <<m_den, m_spa>>,
                  <<num_int(NumTables, m_spa, net[0].arch_interaction_op,
                            net[0].arch_interaction_itself, 0), 1>>,
                  net[0].arch_interaction_op, net[0].arch_interaction_itself, -1, 0,
                  net[0].sync_dense_params, net[0].loss_threshold, net[0].ndevices,
                  0, 1, numpy_rand_seed % 16)

JustBuilt == \A r \in Ranks : pc[r] = "start"

SameAsFullBuild(r, full) ==
    /\ net[r].l_emb_seeds = full.self.l_emb_seeds
    /\ \A k \in 1..Len(net[r].emb_l.v) :
           net[r].emb_l.v[k].weight = full.self.emb_l.v[net[r].emb_l.v[k].name + 1].weight
    /\ net[r].bot_l = full.self.bot_l
    /\ net[r].top_l = full.self.top_l
    /\ np_random[r] = full.state

C30_CreateEmbKeepsRandomState ==
    JustBuilt =>
        /\ \A r \in Ranks : \A s \in 0..15 :
               create_emb(m_spa, ln_emb, net[r].l_emb_seeds, my_size > 1,
                          net[r].local_emb_indices, s).state = s
        /\ \E full \in {FullBuild} : \A r \in Ranks : SameAsFullBuild(r, full)

\* two ranks, three tables: rank 1 creates only table 2, with the weights the
\* single-process build gives table 2, and the same encoders
C30_Witness ==
    /\ JustBuilt /\ my_size = 2 /\ NumTables = 3
    /\ Len(net[1].emb_l.v) = 1
    /\ net[1].emb_l.v[1].name = 2
    /\ net[1].emb_l.v[1].weight = FullBuild.self.emb_l.v[3].weight
    /\ net[1].bot_l = FullBuild.self.bot_l

====
